---- MODULE Spec2Model ----
(***************************************************************************)
(* Memory & context engine of the offline assistant: the persistent        *)
(* message store, the tier manager, the retrieval planner, the context     *)
(* builder, the orchestrator and the streaming turn pipeline.              *)
(*                                                                         *)
(* Text is modelled as a sequence of whitespace-separated words; a         *)
(* content string is  pre ++ join(body, " ") ++ post,  which is how the    *)
(* format!() wrappers of the builder produce their messages.  Lengths are  *)
(* byte lengths, token estimates are len / 4 as in the code.               *)
(***************************************************************************)
EXTENDS Integers, Sequences, FiniteSets, TLC

\* ------------------------------------------------------------------------
\* Generic sequence helpers (Vec operations used by the code)
\* ------------------------------------------------------------------------

None == <<>>

Some(x) == <<x>>

\* F applied to the value of x, x evaluated once
ValueOf(x, F(_)) == CHOOSE y \in {F(v) : v \in {x}} : TRUE

Min2(a, b) == IF a <= b THEN a ELSE b

Max2(a, b) == IF a >= b THEN a ELSE b

\* Vec::insert(idx, e) with a 0-based index
InsertAt(s, idx, e) == SubSeq(s, 1, idx) \o <<e>> \o SubSeq(s, idx + 1, Len(s))

\* iter().take(n)
Take(s, n) == SubSeq(s, 1, Min2(n, Len(s)))

\* iter().rev().take(n).rev()
TakeLast(s, n) == SubSeq(s, Len(s) - Min2(n, Len(s)) + 1, Len(s))

RECURSIVE Reverse(_)
Reverse(s) == IF s = <<>> THEN <<>> ELSE Reverse(Tail(s)) \o <<Head(s)>>

RECURSIVE Dedup(_)
\* Vec::dedup: removes consecutive repeated elements
Dedup(s) ==
    IF Len(s) <= 1 THEN s
    ELSE IF s[1] = s[2] THEN Dedup(Tail(s))
    ELSE <<s[1]>> \o Dedup(Tail(s))

RECURSIVE SumSeq(_)
SumSeq(s) == IF s = <<>> THEN 0 ELSE Head(s) + SumSeq(Tail(s))

\* ------------------------------------------------------------------------
\* Text
\* ------------------------------------------------------------------------

\* a long run of non-blank bytes, standing for a large pasted block
BlobLen == 15944

\* byte length of the word "SUMBLOB", a long stretch of summary text
SummaryBlobLen == 6400

WordLen(w) ==
    IF w = "BLOB" THEN BlobLen ELSE IF w = "SUMBLOB" THEN SummaryBlobLen ELSE Len(w)

\* str::to_lowercase on a word
Lower(w) == IF w = "Hello" THEN "hello" ELSE IF w = "The" THEN "the" ELSE w

LowerAll(ws) == [i \in 1..Len(ws) |-> Lower(ws[i])]

\* byte length of the words joined by single blanks
TextLen(ws) ==
    IF ws = <<>> THEN 0
    ELSE SumSeq([i \in 1..Len(ws) |-> WordLen(ws[i])]) + (Len(ws) - 1)

\* str::contains on lowercased text, for a phrase of whole words
ContainsPhrase(hay, needle) ==
    LET h == LowerAll(hay)
        n == LowerAll(needle)
    IN  \/ n = <<>>
        \/ \E i \in 1..Len(h) :
              /\ i + Len(n) - 1 <= Len(h)
              /\ SubSeq(h, i, i + Len(n) - 1) = n

Content(pre, body, post) == [pre |-> pre, body |-> body, post |-> post]

Raw(body) == Content("", body, "")

\* format!("<pre>{}<post>", c)
Format(pre, c, post) == Content(pre \o c.pre, c.body, c.post \o post)

ContentLen(c) == Len(c.pre) + TextLen(c.body) + Len(c.post)

\* message.content.len() / 4
Tokens(c) == ContentLen(c) \div 4

Remainders ==
    {"", " ", " of earlier conversation: ", " from previous conversations]"}

StrStartsWith(s, p) == \E r \in Remainders : s = p \o r

\* str::starts_with
StartsWith(c, p) ==
    IF c.pre # "" THEN StrStartsWith(c.pre, p)
    ELSE c.body # <<>> /\ StrStartsWith(Head(c.body), p)

Msg(role, c) == [role |-> role, content |-> c]

\* ------------------------------------------------------------------------
\* Context builder (context_engine/context_builder.rs)
\* ------------------------------------------------------------------------

\* ContextBuilderConfig::default()
max_total_tokens == 4000

\* min_current_context_ratio = 0.4, as a fraction
min_current_context_ratio_num == 4

ratio_den == 10

\* max_summary_ratio = 0.4, as a fraction over ratio_den
max_summary_ratio_num == 4

preserve_system_messages == TRUE

enable_detail_injection == TRUE

\* scores are kept in thousandths
ScoreUnit == 1000

IsSystem(m) == m.role = "system"

RECURSIVE FilterSystem(_)
FilterSystem(ms) ==
    IF ms = <<>> THEN <<>>
    ELSE (IF IsSystem(Head(ms)) THEN <<Head(ms)>> ELSE <<>>) \o FilterSystem(Tail(ms))

select_recent_messages(messages) ==
    IF messages = <<>> THEN <<>>
    ELSE LET n == Len(messages)
             ceil == (n * min_current_context_ratio_num + ratio_den - 1) \div ratio_den
             target_count == Min2(Max2(ceil, 1), n)
         IN  TakeLast(messages, target_count)

prepare_context_with_tier1(current_messages, tier1_content) ==
    (IF preserve_system_messages THEN FilterSystem(current_messages) ELSE <<>>)
    \o (IF tier1_content # None THEN tier1_content[1]
        ELSE select_recent_messages(current_messages))

ContextBridge == Msg("system", Content("[Context from previous conversations]", <<>>, ""))

RECURSIVE InsertCross(_, _)
InsertCross(context, cross) ==
    IF cross = <<>> THEN context
    ELSE InsertCross(
            InsertAt(context, 1,
                     Msg(Head(cross).role, Format("[From earlier: ", Head(cross).content, "]"))),
            Tail(cross))

add_cross_session_context(context, cross_messages) ==
    IF cross_messages = <<>> THEN context
    ELSE InsertCross(InsertAt(context, 0, ContextBridge), Take(cross_messages, 3))

RECURSIVE TopicsOfWords(_, _, _)
\* the topic phrases found in one message, scanning i in 0..len-2
TopicsOfWords(words, i, askWords) ==
    IF i > Len(words) - 2 THEN <<>>
    ELSE LET w == Lower(words[i])
             rest == SubSeq(words, i + 1, Len(words))
         IN  (IF w = "about" \/ w = "regarding" THEN <<Take(rest, 3)>> ELSE <<>>)
             \o (IF w \in askWords THEN <<Take(rest, 4)>> ELSE <<>>)
             \o TopicsOfWords(words, i + 1, askWords)

RECURSIVE TopicsOfMessages(_, _)
TopicsOfMessages(ms, askWords) ==
    IF ms = <<>> THEN <<>>
    ELSE TopicsOfWords(Head(ms).content.body, 1, askWords)
         \o TopicsOfMessages(Tail(ms), askWords)

BuilderAskWords == {"what", "how", "why", "when", "where", "who", "which"}

\* ContextBuilder::extract_topics: last five messages, newest first
builder_extract_topics(messages) ==
    Take(Dedup(TopicsOfMessages(Take(Reverse(messages), 5), BuilderAskWords)), 3)

CountIf(s, Test(_)) == Cardinality({i \in 1..Len(s) : Test(s[i])})

score_summary_relevance(summary, current_topics, user_query) ==
    LET topicHits == CountIf(current_topics,
                         LAMBDA topic : \E i \in 1..Len(summary.key_topics) :
                                           ContainsPhrase(summary.key_topics[i], topic))
        queryHits == IF user_query = None THEN 0
                     ELSE CountIf(summary.key_topics,
                                  LAMBDA t : ContainsPhrase(user_query[1], t))
        recency   == (300 * 24) \div (24 + summary.age_hours)
        compress  == (Min2(summary.compression_ratio, ScoreUnit) * 200) \div ScoreUnit
    IN  Min2(400 * topicHits + 500 * queryHits + recency + compress, ScoreUnit)

RECURSIVE SortDesc(_)
\* stable sort by score, highest first (sort_by is stable)
SortDesc(scored) ==
    IF scored = <<>> THEN <<>>
    ELSE LET best == CHOOSE i \in 1..Len(scored) :
                        /\ \A j \in 1..Len(scored) : scored[j].score <= scored[i].score
                        /\ \A j \in 1..(i - 1) : scored[j].score < scored[i].score
         IN  <<scored[best]>>
             \o SortDesc(SubSeq(scored, 1, best - 1) \o SubSeq(scored, best + 1, Len(scored)))

max_summary_tokens == (max_total_tokens * max_summary_ratio_num) \div ratio_den

RECURSIVE PickSummaries(_, _)
PickSummaries(scored, total_tokens) ==
    IF scored = <<>> THEN <<>>
    ELSE LET s == Head(scored)
             summary_tokens == TextLen(s.summary.summary_text) \div 4
         IN  IF s.score < 300 THEN PickSummaries(Tail(scored), total_tokens)
             ELSE IF total_tokens + summary_tokens > max_summary_tokens THEN <<>>
             ELSE <<s.summary>> \o PickSummaries(Tail(scored), total_tokens + summary_tokens)

select_relevant_summaries(summaries, current_messages, user_query) ==
    LET current_topics == builder_extract_topics(current_messages)
        scored == [i \in 1..Len(summaries) |->
                     [summary |-> summaries[i],
                      score   |-> score_summary_relevance(summaries[i], current_topics, user_query)]]
    IN  PickSummaries(SortDesc(scored), 0)

summary_to_message(summary, current_messages) ==
    Msg("system",
        IF Len(current_messages) > 5
        THEN Format("[Summary of earlier conversation: ", Raw(summary.summary_text), "]")
        ELSE Format("[Earlier: ", Raw(summary.summary_text), "]"))

RECURSIVE InsertFront(_, _)
InsertFront(context, ms) ==
    IF ms = <<>> THEN context
    ELSE InsertFront(InsertAt(context, 0, Head(ms)), Tail(ms))

add_summaries_to_context(context, summaries, current_messages, user_query) ==
    IF summaries = <<>> THEN context
    ELSE LET relevant == select_relevant_summaries(summaries, current_messages, user_query)
         IN  InsertFront(context,
                         [i \in 1..Len(relevant) |-> summary_to_message(relevant[i], current_messages)])

DetailWords == {"the", "that", "those", "specific", "exact"}

RECURSIVE DetailRequestsFrom(_, _)
DetailRequestsFrom(words, i) ==
    IF i > Len(words) - 1 THEN <<>>
    ELSE (IF words[i] \in DetailWords
          THEN <<Take(SubSeq(words, i + 1, Len(words)), 3)>> ELSE <<>>)
         \o DetailRequestsFrom(words, i + 1)

extract_detail_requests(user_query) ==
    IF user_query = None THEN <<>>
    ELSE Dedup(DetailRequestsFrom(LowerAll(user_query[1]), 1))

RECURSIVE FindDetails(_, _, _)
FindDetails(messages, detail_requests, found) ==
    IF messages = <<>> \/ found >= 3 THEN <<>>
    ELSE LET hit == \E i \in 1..Len(detail_requests) :
                        ContainsPhrase(Head(messages).content.body, detail_requests[i])
         IN  (IF hit THEN <<Head(messages)>> ELSE <<>>)
             \o FindDetails(Tail(messages), detail_requests, IF hit THEN found + 1 ELSE found)

find_relevant_details(messages, detail_requests) == FindDetails(messages, detail_requests, 0)

\* iter().rposition(|m| m.role == "user"), 0-based; -1 when there is none
RPositionUser(context) ==
    LET idx == {i \in 1..Len(context) : context[i].role = "user"}
    IN  IF idx = {} THEN -1 ELSE (CHOOSE i \in idx : \A j \in idx : j <= i) - 1

RECURSIVE InsertDetails(_, _)
InsertDetails(context, details) ==
    IF details = <<>> THEN context
    ELSE LET detail_message ==
                 Msg(Head(details).role, Format("[Earlier detail: ", Head(details).content, "]"))
             pos == RPositionUser(context)
         IN  InsertDetails(InsertAt(context, IF pos >= 0 THEN pos ELSE 0, detail_message),
                           Tail(details))

add_specific_details(context, full_messages, user_query) ==
    IF ~enable_detail_injection \/ full_messages = <<>> THEN context
    ELSE LET detail_requests == extract_detail_requests(user_query)
         IN  IF detail_requests = <<>> THEN context
             ELSE InsertDetails(context, find_relevant_details(full_messages, detail_requests))

RECURSIVE TrimFrom(_, _)
TrimFrom(context, total_tokens) ==
    IF context = <<>> THEN <<>>
    ELSE LET message_tokens == Tokens(Head(context).content)
         IN  IF total_tokens + message_tokens > max_total_tokens
             THEN TrimFrom(Tail(context), total_tokens)
             ELSE <<Head(context)>> \o TrimFrom(Tail(context), total_tokens + message_tokens)

trim_to_token_limit(context) == TrimFrom(context, 0)

IsSummaryMsg(m) ==
    /\ m.role = "system"
    /\ StartsWith(m.content, "[Summary") \/ StartsWith(m.content, "[Earlier:")

IsTransitionPrefix(m) ==
    /\ m.role = "system"
    /\ \/ StartsWith(m.content, "[Summary")
       \/ StartsWith(m.content, "[Earlier:")
       \/ StartsWith(m.content, "[Context")

\* 0-based index of the first message that is not a summary or context bridge
find_transition_point(context) ==
    LET idx == {i \in 1..Len(context) : ~IsTransitionPrefix(context[i])}
    IN  IF idx = {} THEN Len(context) ELSE (CHOOSE i \in idx : \A j \in idx : i <= j) - 1

Digit == <<"0", "1", "2", "3", "4", "5", "6", "7", "8", "9">>

RECURSIVE DecStr(_)
DecStr(n) == IF n < 10 THEN Digit[n + 1] ELSE DecStr(n \div 10) \o Digit[(n % 10) + 1]

ContinuingBridge(summary_count) ==
    Msg("system",
        Content("[Continuing from earlier conversation with " \o DecStr(summary_count)
                \o " summary" \o (IF summary_count > 1 THEN "s" ELSE "") \o "]", <<>>, ""))

add_bridging(context, summaries) ==
    IF ~enable_detail_injection \/ Len(context) < 2 \/ summaries = None THEN context
    ELSE LET transition_idx == find_transition_point(context)
             summary_count ==
                 Cardinality({i \in 1..transition_idx : IsSummaryMsg(context[i])})
         IN  IF transition_idx > 0 /\ transition_idx < Len(context) /\ summary_count > 0
             THEN InsertAt(context, transition_idx, ContinuingBridge(summary_count))
             ELSE context

build_context(current_messages, tier1_content, tier2_summaries, tier3_messages, cross_session_messages, user_query) ==
    LET c0 == prepare_context_with_tier1(current_messages, tier1_content)
        c1 == IF cross_session_messages # None
              THEN add_cross_session_context(c0, cross_session_messages[1]) ELSE c0
        c2 == IF tier2_summaries # None
              THEN add_summaries_to_context(c1, tier2_summaries[1], current_messages, user_query)
              ELSE c1
        c3 == IF tier3_messages # None
              THEN add_specific_details(c2, tier3_messages[1], user_query) ELSE c2
        c4 == trim_to_token_limit(c3)
    IN  add_bridging(c4, tier2_summaries)

\* ------------------------------------------------------------------------
\* Persistent store (memory_db/schema.rs, memory_db/conversation_store.rs)
\* ------------------------------------------------------------------------

VARIABLES
    sessions,       \* sessions table: id -> [last_accessed]
    messages,       \* messages table in rowid order; the row id is the position
    summaries,      \* summaries table: session id -> rows, newest first
    embeddings,     \* message ids that have an embeddings row
    tier1_cache,    \* TierManager.tier1_cache: session id -> Option<Vec<Message>>
    tier2_cache,    \* TierManager.tier2_cache: session id -> Option<Vec<Summary>>
    orchestrator    \* state.context_orchestrator: "none" or "enabled"

\* a row of the messages table
Row(id, sid, idx, role, c) ==
    [id |-> id, session_id |-> sid, message_index |-> idx, role |-> role,
     content |-> c, embedding_generated |-> FALSE]

SessionRowSet(msgs, sid) == {i \in 1..Len(msgs) : msgs[i].session_id = sid}

RECURSIVE OrderByIndex(_, _)
\* the rows at positions ids, ORDER BY message_index (rowid breaks ties)
OrderByIndex(msgs, ids) ==
    IF ids = {} THEN <<>>
    ELSE LET first == CHOOSE i \in ids : \A j \in ids :
                          \/ msgs[i].message_index < msgs[j].message_index
                          \/ msgs[i].message_index = msgs[j].message_index /\ i <= j
         IN  <<msgs[first]>> \o OrderByIndex(msgs, ids \ {first})

\* SELECT ... WHERE session_id = ?1 ORDER BY message_index LIMIT ?2 OFFSET ?3
get_session_messages(msgs, sid, limit, offset) ==
    LET all == OrderByIndex(msgs, SessionRowSet(msgs, sid))
    IN  SubSeq(all, offset + 1, Min2(Len(all), offset + limit))

get_session_message_count(msgs, sid) == Cardinality(SessionRowSet(msgs, sid))

\* UPDATE sessions SET last_accessed = now WHERE id = ?
update_session_access(sess, sid) ==
    IF sid \in DOMAIN sess
    THEN [sess EXCEPT ![sid] = [last_accessed |-> @.last_accessed + 1]]
    ELSE sess

\* INSERT INTO sessions: fails on the primary key when the id is taken
create_session_with_id(sess, sid) ==
    IF sid \in DOMAIN sess
    THEN [ok |-> FALSE, sessions |-> sess]
    ELSE [ok |-> TRUE,
          sessions |-> [x \in DOMAIN sess \cup {sid} |->
                           IF x = sid THEN [last_accessed |-> 0] ELSE sess[x]]]

\* InsertAllowed without the UNIQUE(session_id, message_index) constraint
InsertAllowed_NoUnique(sess, msgs, sid, idx, fk) ==
    fk => sid \in DOMAIN sess

\* one INSERT INTO messages; fk says whether the pooled connection enforces
\* foreign keys.  UNIQUE(session_id, message_index) and the foreign key reject.
InsertAllowed(sess, msgs, sid, idx, fk) ==
    /\ \A i \in 1..Len(msgs) :
          ~(msgs[i].session_id = sid /\ msgs[i].message_index = idx)
    /\ fk => sid \in DOMAIN sess

RECURSIVE InsertBatch(_, _, _, _, _)
\* the inserts of one transaction; ok = FALSE as soon as one insert fails
InsertBatch(sess, msgs, sid, batch, fk) ==
    IF batch = <<>> THEN [ok |-> TRUE, messages |-> msgs]
    ELSE LET b == Head(batch)
         IN  IF InsertAllowed(sess, msgs, sid, b.message_index, fk)
             THEN InsertBatch(sess,
                              Append(msgs, Row(Len(msgs) + 1, sid, b.message_index, b.role, b.content)),
                              sid, Tail(batch), fk)
             ELSE [ok |-> FALSE, messages |-> msgs]

\* ConversationStore::store_messages_batch: the access update is outside the
\* transaction, the inserts are rolled back together when one of them fails
store_messages_batch(sess, msgs, sid, batch, fk) ==
    LET touched == update_session_access(sess, sid)
        tx == InsertBatch(touched, msgs, sid, batch, fk)
    IN  [ok       |-> tx.ok,
         sessions |-> touched,
         messages |-> IF tx.ok THEN tx.messages ELSE msgs,
         stored   |-> IF tx.ok THEN SubSeq(tx.messages, Len(msgs) + 1, Len(tx.messages))
                      ELSE <<>>]

BatchItem(role, c, idx) == [role |-> role, content |-> c, message_index |-> idx]

\* UPDATE messages SET embedding_generated = TRUE WHERE id = ?
mark_embedding_generated(msgs, id) ==
    [i \in 1..Len(msgs) |->
        IF msgs[i].id = id THEN [msgs[i] EXCEPT !.embedding_generated = TRUE] ELSE msgs[i]]

\* ------------------------------------------------------------------------
\* Tier manager (context_engine/tier_manager.rs)
\* ------------------------------------------------------------------------

\* TierManagerConfig::default()
tier1_max_messages == 50

enable_tier3_persistence == TRUE

\* rows scanned by store_tier3_content for dedup and the next index
Tier3ScanLimit == 10000

store_tier1_content(cache, sid, msgs) ==
    [cache EXCEPT ![sid] = Some(TakeLast(msgs, tier1_max_messages))]

\* Tier3NewMessages without the (role, content) filter
Tier3NewMessages_NoDedup(existing, msgs) == msgs

\* the messages of the call that match no existing row in (role, content)
Tier3NewMessages(existing, msgs) ==
    LET isNew(m) == ~\E i \in 1..Len(existing) :
                        existing[i].content = m.content /\ existing[i].role = m.role
        F[k \in 0..Len(msgs)] ==
            IF k = 0 THEN <<>>
            ELSE F[k - 1] \o (IF isNew(msgs[k]) THEN <<msgs[k]>> ELSE <<>>)
    IN  F[Len(msgs)]

\* batch_data: consecutive indexes from existing_messages.len()
Tier3Batch(existing, new_messages) ==
    [k \in 1..Len(new_messages) |->
        BatchItem(new_messages[k].role, new_messages[k].content, Len(existing) + (k - 1))]

\* TierManager::ensure_session_exists run without interruption
ensure_session_exists(sess, sid) ==
    IF sid \in DOMAIN sess THEN [ok |-> TRUE, sessions |-> sess]
    ELSE create_session_with_id(sess, sid)

\* store_tier3_content going on to store_messages_batch with an empty batch
store_tier3_content_NoEarlyReturn(sess, msgs, sid, new, fk) ==
    IF ~enable_tier3_persistence \/ new = <<>>
    THEN [ok |-> TRUE, sessions |-> sess, messages |-> msgs]
    ELSE LET ens == ensure_session_exists(sess, sid)
             existing == get_session_messages(msgs, sid, Tier3ScanLimit, 0)
             new_messages == Tier3NewMessages(existing, new)
         IN  IF ~ens.ok THEN [ok |-> FALSE, sessions |-> sess, messages |-> msgs]
             ELSE LET r == store_messages_batch(ens.sessions, msgs, sid,
                                                Tier3Batch(existing, new_messages), fk)
                  IN  [ok |-> r.ok, sessions |-> r.sessions, messages |-> r.messages]

\* TierManager::store_tier3_content run without interruption
store_tier3_content(sess, msgs, sid, new, fk) ==
    IF ~enable_tier3_persistence \/ new = <<>>
    THEN [ok |-> TRUE, sessions |-> sess, messages |-> msgs]
    ELSE LET ens == ensure_session_exists(sess, sid)
             existing == get_session_messages(msgs, sid, Tier3ScanLimit, 0)
             new_messages == Tier3NewMessages(existing, new)
         IN  IF ~ens.ok THEN [ok |-> FALSE, sessions |-> sess, messages |-> msgs]
             ELSE IF new_messages = <<>>
             THEN [ok |-> TRUE, sessions |-> ens.sessions, messages |-> msgs]
             ELSE LET r == store_messages_batch(ens.sessions, msgs, sid,
                                                Tier3Batch(existing, new_messages), fk)
                  IN  [ok |-> r.ok, sessions |-> r.sessions, messages |-> r.messages]

\* TierManager::get_tier2_content: cache hit, else read through and cache
\* a non-empty result
get_tier2_content(cache, sums, sid) ==
    IF cache[sid] # None THEN [value |-> cache[sid], cache |-> cache]
    ELSE [value |-> Some(sums[sid]),
          cache |-> IF sums[sid] # <<>> THEN [cache EXCEPT ![sid] = Some(sums[sid])] ELSE cache]

RECURSIVE FilterContains(_, _)
FilterContains(rows, query) ==
    IF rows = <<>> THEN <<>>
    ELSE (IF ContainsPhrase(Head(rows).content.body, query) THEN <<Head(rows)>> ELSE <<>>)
         \o FilterContains(Tail(rows), query)

\* TierManager::search_tier3_content
search_tier3_content(msgs, sid, query, limit) ==
    Take(FilterContains(get_session_messages(msgs, sid, 1000, 0), query), limit)

StopWords ==
    {"the", "a", "an", "and", "or", "but", "in", "on", "at", "to", "for",
     "of", "with", "by", "is", "am", "are", "was", "were", "be", "been",
     "being", "have", "has", "had", "do", "does", "did", "will", "would",
     "shall", "should", "may", "might", "must", "can", "could"}

RECURSIVE extract_keywords(_)
extract_keywords(words) ==
    IF words = <<>> THEN <<>>
    ELSE (IF WordLen(Head(words)) > 3 /\ Lower(Head(words)) \notin StopWords
          THEN <<Lower(Head(words))>> ELSE <<>>)
         \o extract_keywords(Tail(words))

RECURSIVE OrderCross(_, _)
\* ORDER BY importance (equal), assistant rows last, newest first
OrderCross(msgs, ids) ==
    IF ids = {} THEN <<>>
    ELSE LET rank(i) == IF msgs[i].role = "assistant" THEN 1 ELSE 0
             first == CHOOSE i \in ids : \A j \in ids :
                          \/ rank(i) < rank(j)
                          \/ rank(i) = rank(j) /\ i >= j
         IN  <<msgs[first]>> \o OrderCross(msgs, ids \ {first})

\* ConversationStore::search_messages_by_topic_across_sessions
search_messages_by_topic_across_sessions(sess, msgs, keywords, limit, exclude) ==
    LET hit == {i \in 1..Len(msgs) :
                   /\ msgs[i].session_id \in DOMAIN sess
                   /\ msgs[i].session_id # exclude
                   /\ \A k \in 1..Len(keywords) :
                         ContainsPhrase(msgs[i].content.body, <<keywords[k]>>)}
    IN  Take(OrderCross(msgs, hit), limit)

\* TierManager::search_cross_session_content
search_cross_session_content(sess, msgs, current, query, limit) ==
    LET keywords == extract_keywords(query)
    IN  IF keywords = <<>> THEN <<>>
        ELSE search_messages_by_topic_across_sessions(sess, msgs, keywords, limit, current)

\* ------------------------------------------------------------------------
\* Retrieval planner (context_engine/retrieval_planner.rs)
\* ------------------------------------------------------------------------

ContainsAny(text, patterns) == \E pat \in patterns : ContainsPhrase(text, pat)

cross_session_patterns ==
    {<<"previously">>, <<"before">>, <<"earlier">>, <<"last", "time">>, <<"yesterday">>,
     <<"do", "you", "remember">>, <<"we", "discussed">>, <<"we", "talked", "about">>,
     <<"what", "did", "we", "talk">>, <<"remember", "when">>, <<"recall">>}

is_cross_session_query(query) == ContainsAny(query, cross_session_patterns)

text_reference_patterns ==
    {<<"earlier">>, <<"before">>, <<"previous">>, <<"last", "time">>, <<"yesterday">>,
     <<"we", "discussed">>, <<"we", "talked", "about">>, <<"remember">>, <<"recall">>,
     <<"did", "we", "talk">>, <<"have", "we", "discussed">>, <<"what", "did", "we", "say">>,
     <<"what", "was", "said">>, <<"mentioned", "earlier">>, <<"previously", "mentioned">>}

has_past_references_in_text(text) == ContainsAny(text, text_reference_patterns)

message_reference_patterns ==
    {<<"earlier">>, <<"before">>, <<"previous">>, <<"last", "time">>, <<"yesterday">>,
     <<"we", "discussed">>, <<"we", "talked", "about">>, <<"remember">>, <<"recall">>}

has_past_references_in_messages(msgs) ==
    \E i \in 1..Len(msgs) :
        /\ i > Len(msgs) - 5
        /\ ContainsAny(msgs[i].content.body, message_reference_patterns)

detail_patterns ==
    {<<"exactly">>, <<"specifically">>, <<"in", "detail">>, <<"step", "by", "step">>,
     <<"the", "code">>, <<"the", "number">>, <<"the", "date">>, <<"the", "name">>,
     <<"show", "me">>, <<"give", "me">>, <<"tell", "me">>}

requires_specific_details(query) == ContainsAny(query, detail_patterns)

temporal_patterns ==
    {<<"yesterday">>, <<"today">>, <<"tomorrow">>, <<"last", "week">>, <<"last", "month">>,
     <<"earlier">>, <<"before">>, <<"previously">>, <<"in", "the", "past">>}

has_temporal_references(query) == ContainsAny(query, temporal_patterns)

technical_terms == {"code", "function", "algorithm", "parameter", "variable"}

ClauseSeparators == {",", ";", "&"}

\* assess_query_complexity, in thousandths
assess_query_complexity(query) ==
    IF Len(query) < 3 THEN 200
    ELSE LET clause_count == 1 + Cardinality({i \in 1..Len(query) : query[i] \in ClauseSeparators})
             terms == Cardinality({t \in technical_terms : ContainsPhrase(query, <<t>>)})
         IN  Min2(Min2(Len(query), 50) * 10 + Min2(clause_count, 5) * 100 + 200 * terms,
                  ScoreUnit)

extract_topics_from_query(query) ==
    IF Len(query) < 3 THEN <<query>> ELSE <<TakeLast(query, 4)>>

RECURSIVE FilterUser(_)
FilterUser(ms) ==
    IF ms = <<>> THEN <<>>
    ELSE (IF Head(ms).role = "user" THEN <<Head(ms)>> ELSE <<>>) \o FilterUser(Tail(ms))

PlannerAskWords == {"what", "how", "why", "when", "where", "who"}

\* RetrievalPlanner::extract_topics: last three user messages, newest first
planner_extract_topics(msgs) ==
    Take(Dedup(TopicsOfMessages(Take(FilterUser(Reverse(msgs)), 3), PlannerAskWords)), 3)

EstimatedTokens(msgs) == SumSeq([i \in 1..Len(msgs) |-> Tokens(msgs[i].content)])

\* RetrievalPlanner::needs_retrieval
needs_retrieval(msgs, max_tokens) ==
    IF Len(msgs) <= 1 THEN FALSE ELSE EstimatedTokens(msgs) > max_tokens

\* RetrievalPlan::default()
DefaultPlan ==
    [needs_retrieval |-> FALSE, use_tier1 |-> TRUE, use_tier2 |-> FALSE, use_tier3 |-> FALSE,
     cross_session_search |-> FALSE, semantic_search |-> FALSE, keyword_search |-> FALSE,
     temporal_search |-> FALSE, max_messages |-> 100, max_tokens |-> 4000,
     target_compression |-> 300, search_topics |-> <<>>]

analyze_conversation(msgs, user_query) ==
    [extracted_topics          |-> planner_extract_topics(msgs),
     has_past_references       |-> has_past_references_in_messages(msgs),
     requires_specific_details |-> user_query # None /\ requires_specific_details(user_query[1]),
     query_complexity          |-> IF user_query = None THEN 0
                                   ELSE assess_query_complexity(user_query[1]),
     conversation_length       |-> Len(msgs)]

\* plan_tier_usage; has_summaries and has_db_messages are what the store reads gave
plan_tier_usage(plan, analysis, has_summaries, has_db_messages, past_refs_in_query) ==
    LET t3 == \/ past_refs_in_query /\ has_db_messages
              \/ analysis.requires_specific_details /\ has_db_messages
              \/ plan.cross_session_search
              \/ analysis.conversation_length > 30 /\ has_db_messages
              \/ analysis.has_past_references /\ has_db_messages
    IN  [plan EXCEPT !.use_tier2 = has_summaries,
                     !.use_tier3 = t3,
                     !.target_compression =
                         IF analysis.conversation_length > 100 THEN 200 ELSE @]

plan_search_strategies(plan, analysis, user_query) ==
    [plan EXCEPT
        !.semantic_search = \/ analysis.query_complexity > 500
                            \/ analysis.extracted_topics = <<>> /\ ~plan.cross_session_search,
        !.keyword_search = \/ analysis.requires_specific_details
                           \/ analysis.has_past_references
                           \/ plan.cross_session_search
                           \/ analysis.extracted_topics # <<>>,
        !.temporal_search = has_temporal_references(IF user_query = None THEN <<>>
                                                    ELSE user_query[1])]

adjust_limits(plan, msgs, max_context_tokens) ==
    LET current_tokens == EstimatedTokens(msgs)
        available == IF max_context_tokens > current_tokens
                     THEN max_context_tokens - current_tokens ELSE 0
    IN  [plan EXCEPT !.max_messages = Min2(Max2(available \div 50, 10), 100)]

\* RetrievalPlanner::create_plan
create_plan(msgs, max_context_tokens, user_query, has_past_refs, has_summaries, has_db_messages) ==
    LET cross == user_query # None /\ is_cross_session_query(user_query[1])
        p0 == [DefaultPlan EXCEPT !.max_tokens = max_context_tokens]
        p1 == IF cross
              THEN [p0 EXCEPT !.needs_retrieval = TRUE,
                              !.cross_session_search = TRUE,
                              !.search_topics = extract_topics_from_query(user_query[1])]
              ELSE p0
        past == \/ user_query # None /\ has_past_references_in_text(user_query[1])
                \/ has_past_refs
    IN  IF ~p1.needs_retrieval /\ ~needs_retrieval(msgs, max_context_tokens) /\ ~past
        THEN p1
        ELSE LET analysis == analyze_conversation(msgs, user_query)
                 p2 == [p1 EXCEPT !.needs_retrieval = TRUE, !.use_tier1 = TRUE]
                 p3 == plan_tier_usage(p2, analysis, has_summaries, has_db_messages, past)
                 p4 == plan_search_strategies(p3, analysis, user_query)
                 p5 == IF p4.search_topics = <<>>
                       THEN [p4 EXCEPT !.search_topics = analysis.extracted_topics] ELSE p4
             IN  adjust_limits(p5, msgs, max_context_tokens)

\* ------------------------------------------------------------------------
\* Orchestrator (context_engine/orchestrator.rs)
\* ------------------------------------------------------------------------

\* OrchestratorConfig::default().max_context_tokens
orch_max_context_tokens == 4000

\* thread_server installs the LLM worker into the orchestrator at start-up
llm_worker_set == TRUE

\* environment faults of one retrieval: none, every store read fails, or the
\* gateway's embedding call fails
Faults == {"none", "db", "gateway"}

\* The gateway's embedding of a text is abstracted to its keyword set; two
\* texts reach the 0.3 cosine threshold when they share a keyword.
KeywordSet(words) == {extract_keywords(words)[i] : i \in 1..Len(extract_keywords(words))}

Similarity(a, b) == Cardinality(KeywordSet(a) \cap KeywordSet(b))

RECURSIVE OrderBySimilarity(_, _, _)
OrderBySimilarity(msgs, ids, query) ==
    IF ids = {} THEN <<>>
    ELSE LET sim(i) == Similarity(query, msgs[i].content.body)
             first == CHOOSE i \in ids : \A j \in ids :
                          \/ sim(i) > sim(j)
                          \/ sim(i) = sim(j) /\ i <= j
         IN  <<msgs[first]>> \o OrderBySimilarity(msgs, ids \ {first}, query)

\* the semantic-search block of execute_retrieval_plan
SemanticResults(plan, msgs, embs, user_query, fault) ==
    LET has_embeddings == fault # "db" /\ embs # {}
    IN  IF plan.semantic_search /\ has_embeddings /\ llm_worker_set
           /\ user_query # None /\ fault = "none"
        THEN Take(OrderBySimilarity(msgs,
                      {i \in embs : i <= Len(msgs) /\ Similarity(user_query[1], msgs[i].content.body) >= 1},
                      user_query[1]),
                  plan.max_messages * 2)
        ELSE <<>>

RECURSIVE JoinTopics(_)
JoinTopics(topics) == IF topics = <<>> THEN <<>> ELSE Head(topics) \o JoinTopics(Tail(topics))

RECURSIVE KeywordOnly(_, _)
KeywordOnly(semantic, results) ==
    IF results = <<>> THEN <<>>
    ELSE (IF \E i \in 1..Len(semantic) : semantic[i].id = Head(results).id
          THEN <<>> ELSE <<Head(results)>>)
         \o KeywordOnly(semantic, Tail(results))

\* keyword rows fill in behind the semantic rows, skipping ids already present
MergeById(semantic, results) == semantic \o KeywordOnly(semantic, results)

\* ContextOrchestrator::execute_retrieval_plan
execute_retrieval_plan(plan, sid, user_query, sess, msgs, sums, embs, t1, t2, fault) ==
    LET tier1 == IF plan.use_tier1 THEN t1[sid] ELSE None
        t2read == IF fault = "db" /\ t2[sid] = None
                  THEN [value |-> None, cache |-> t2]
                  ELSE get_tier2_content(t2, sums, sid)
        semantic == SemanticResults(plan, msgs, embs, user_query, fault)
        topics == plan.search_topics
        tier3 ==
            IF plan.use_tier3
            THEN IF plan.keyword_search /\ topics # <<>>
                 THEN IF fault # "db"
                      THEN Some(MergeById(semantic,
                                  search_tier3_content(msgs, sid, topics[1],
                                                       plan.max_messages \div Max2(Len(topics), 1))))
                      ELSE IF semantic # <<>> THEN Some(semantic) ELSE None
                 ELSE IF semantic # <<>> THEN Some(semantic)
                      ELSE IF fault # "db"
                           THEN Some(get_session_messages(msgs, sid, plan.max_messages, 0))
                           ELSE None
            ELSE IF semantic # <<>> THEN Some(semantic) ELSE None
        cross ==
            IF plan.cross_session_search /\ topics # <<>> /\ fault # "db"
            THEN Some(search_cross_session_content(sess, msgs, sid, JoinTopics(topics), 10))
            ELSE None
    IN  [tier1 |-> tier1,
         tier2 |-> IF plan.use_tier2 THEN t2read.value ELSE None,
         tier3 |-> tier3,
         cross_session |-> cross,
         tier2_cache |-> IF plan.use_tier2 THEN t2read.cache ELSE t2]

\* PlanAndBuild without the early return of a plan that needs no retrieval
PlanAndBuild_NoEarlyReturn(sid, req_messages, user_query, sess, msgs, sums, embs, t1, t2, fault) ==
    LET has_summaries == fault # "db" /\ sums[sid] # <<>>
        has_db_messages == fault # "db" /\ get_session_messages(msgs, sid, 1, 0) # <<>>
        has_past_refs == user_query # None /\ has_past_references_in_text(user_query[1])
        plan == create_plan(req_messages, orch_max_context_tokens, user_query,
                            has_past_refs, has_summaries, has_db_messages)
        Retrieve(pl) ==
            ValueOf(execute_retrieval_plan(pl, sid, user_query, sess, msgs, sums, embs, t1, t2,
                                           fault),
                    LAMBDA got :
                        [out |-> build_context(req_messages, got.tier1, got.tier2, got.tier3,
                                               got.cross_session, user_query),
                         tier2_cache |-> got.tier2_cache, plan |-> pl])
    IN  ValueOf(plan, Retrieve)

\* process_conversation from the plan on: create_plan, execute_retrieval_plan
\* and build_context, with the reads they make of the store
PlanAndBuild(sid, req_messages, user_query, sess, msgs, sums, embs, t1, t2, fault) ==
    LET has_summaries == fault # "db" /\ sums[sid] # <<>>
        has_db_messages == fault # "db" /\ get_session_messages(msgs, sid, 1, 0) # <<>>
        has_past_refs == user_query # None /\ has_past_references_in_text(user_query[1])
        plan == create_plan(req_messages, orch_max_context_tokens, user_query,
                            has_past_refs, has_summaries, has_db_messages)
        Retrieve(pl) ==
            ValueOf(execute_retrieval_plan(pl, sid, user_query, sess, msgs, sums, embs, t1, t2,
                                           fault),
                    LAMBDA got :
                        [out |-> build_context(req_messages, got.tier1, got.tier2, got.tier3,
                                               got.cross_session, user_query),
                         tier2_cache |-> got.tier2_cache, plan |-> pl])
    IN  ValueOf(plan, LAMBDA pl :
                    IF ~pl.needs_retrieval
                    THEN [out |-> req_messages, tier2_cache |-> t2, plan |-> pl]
                    ELSE Retrieve(pl))

\* ContextOrchestrator::process_conversation run without interruption
process_conversation(enabled, sid, req_messages, user_query, sess, msgs, sums, embs, t1, t2, fault, fk) ==
    IF ~enabled \/ req_messages = <<>>
    THEN [out |-> req_messages, sessions |-> sess, messages |-> msgs,
          tier1_cache |-> t1, tier2_cache |-> t2, plan |-> None]
    ELSE LET t1n == store_tier1_content(t1, sid, req_messages)
             last == req_messages[Len(req_messages)]
             st == IF last.role = "user"
                   THEN store_tier3_content(sess, msgs, sid, <<last>>, fk)
                   ELSE [ok |-> TRUE, sessions |-> sess, messages |-> msgs]
             Rest(stored_state) ==
                 ValueOf(PlanAndBuild(sid, req_messages, user_query, stored_state[2].sessions,
                                      stored_state[2].messages, sums, embs, stored_state[1],
                                      t2, fault),
                         LAMBDA r : [out |-> r.out, sessions |-> stored_state[2].sessions,
                                     messages |-> stored_state[2].messages,
                                     tier1_cache |-> stored_state[1],
                                     tier2_cache |-> r.tier2_cache, plan |-> Some(r.plan)])
         IN  ValueOf(<<t1n, st>>, Rest)

\* ------------------------------------------------------------------------
\* Streaming turn pipeline (api/stream_api.rs)
\* ------------------------------------------------------------------------

\* number of turns a client runs against the session
MaxTurns == 1

Turns == 1..MaxTurns

\* the session the turns address
Sid == "s1"

VARIABLES
    req,             \* req.messages of the turn
    pc,              \* position of the request task
    bgpc,            \* position of the detached user-persist task
    embpc,           \* position of the detached embedding task
    ctx,             \* context_messages handed to the LLM worker
    upstream,        \* items the LLM stream has still to yield
    full_response,   \* words accumulated from the stream
    sse,             \* events yielded to the client
    existing,        \* existing_messages read by the turn's store_tier3_content
    stored,          \* stored_msgs of the assistant persist (row ids)
    embed_ids,       \* message_ids collected by the embedding task
    retrieval_fault, \* fault met by the turn's retrieval
    events           \* order of the turn's pipeline events

U(words) == Msg("user", Raw(words))

A(words) == Msg("assistant", Raw(words))

S(words) == Msg("system", Raw(words))

PastQuery == <<"what", "did", "we", "discuss", "earlier", "about", "the", "budget", "plan">>

BudgetNote == <<"the", "budget", "plan", "is", "ten", "thousand">>

Requests ==
    { <<>>,
      <<U(<<"Hello">>)>>,
      <<S(<<"be", "brief">>), U(<<"Hello">>)>>,
      <<U(PastQuery)>>,
      <<U(<<"Hello">>), A(<<"hi">>), U(BudgetNote)>> }

\* what a client sends after a first turn: the conversation so far with a new
\* user message, or a new question alone
FollowUps ==
    { <<U(<<"Hello">>), A(<<"hi">>), U(BudgetNote)>>, <<U(PastQuery)>> }

Tok(words) == [kind |-> "tok", words |-> words]

DoneItem == [kind |-> "done", words |-> <<>>]

ErrItem == [kind |-> "err", words |-> <<>>]

\* what the LLM stream can yield: tokens then [DONE], [DONE] alone, or an error
Upstreams ==
    { <<Tok(<<"hi">>), DoneItem>>, <<DoneItem>>, <<Tok(<<"hi">>), ErrItem>> }

\* req.messages.iter().rev().find(|m| m.role == "user")
user_msg_content(r) ==
    LET us == FilterUser(r)
    IN  IF us = <<>> THEN None ELSE Some(us[Len(us)].content)

UserQuery(r) == IF user_msg_content(r) = None THEN None ELSE Some(user_msg_content(r)[1].body)

MainFinished(t) == pc[t] \in {"done", "cancelled", "rejected", "bad_gateway"}

\* the request task and the detached tasks of the turn have all ended
TurnSettled(t) ==
    MainFinished(t) /\ bgpc[t] \in {"none", "done"} /\ embpc[t] \in {"none", "done", "skipped"}

Log(t, e) == events' = [events EXCEPT ![t] = Append(@, e)]

\* the request task ends: its locals are dropped
DropLocals(t) ==
    /\ ctx' = [ctx EXCEPT ![t] = <<>>]
    /\ upstream' = [upstream EXCEPT ![t] = <<>>]
    /\ full_response' = [full_response EXCEPT ![t] = <<>>]
    /\ existing' = [existing EXCEPT ![t] = <<>>]

\* generate_stream up to the call of the orchestrator: the empty-request check,
\* the spawn of the user-persist task and the tier-1 write of process_conversation
StartTurn(t, r) ==
    /\ pc[t] = "idle"
    /\ t > 1 => TurnSettled(t - 1) /\ r \in FollowUps
    /\ req' = [req EXCEPT ![t] = r]
    /\ IF r = <<>>
       THEN /\ pc' = [pc EXCEPT ![t] = "rejected"]
            /\ UNCHANGED <<bgpc, events, tier1_cache, ctx>>
       ELSE /\ IF user_msg_content(r) # None
               THEN bgpc' = [bgpc EXCEPT ![t] = "create"] /\ Log(t, "user_persist_started")
               ELSE UNCHANGED <<bgpc, events>>
            /\ IF orchestrator = "enabled"
               THEN /\ tier1_cache' = store_tier1_content(tier1_cache, Sid, r)
                    /\ pc' = [pc EXCEPT ![t] = IF r[Len(r)].role = "user" THEN "t3_get" ELSE "plan"]
                    /\ UNCHANGED ctx
               ELSE /\ ctx' = [ctx EXCEPT ![t] = r]
                    /\ pc' = [pc EXCEPT ![t] = "llm"]
                    /\ UNCHANGED tier1_cache
    /\ UNCHANGED <<sessions, messages, summaries, embeddings, tier2_cache, orchestrator,
                   embpc, upstream, full_response, sse, existing, stored, embed_ids,
                   retrieval_fault>>

\* detached task: create_session_with_id, its error ignored
BgCreate(t) ==
    /\ bgpc[t] = "create"
    /\ sessions' = create_session_with_id(sessions, Sid).sessions
    /\ bgpc' = [bgpc EXCEPT ![t] = "insert"]
    /\ UNCHANGED <<messages, summaries, embeddings, tier1_cache, tier2_cache, orchestrator,
                   req, pc, embpc, ctx, upstream, full_response, sse, existing, stored,
                   embed_ids, retrieval_fault, events>>

\* detached task: store_messages_batch of the user message at index msg_count - 1
BgInsert(t) ==
    /\ bgpc[t] = "insert"
    /\ \E fk \in BOOLEAN :
          LET r == store_messages_batch(sessions, messages, Sid,
                       <<BatchItem("user", user_msg_content(req[t])[1], Len(req[t]) - 1)>>, fk)
          IN  sessions' = r.sessions /\ messages' = r.messages
    /\ bgpc' = [bgpc EXCEPT ![t] = "done"]
    /\ UNCHANGED <<summaries, embeddings, tier1_cache, tier2_cache, orchestrator,
                   req, pc, embpc, ctx, upstream, full_response, sse, existing, stored,
                   embed_ids, retrieval_fault, events>>

\* store_tier3_content, step 1: ensure_session_exists reads the session row
T3Get(t) ==
    /\ pc[t] = "t3_get"
    /\ pc' = [pc EXCEPT ![t] = IF Sid \in DOMAIN sessions THEN "t3_read" ELSE "t3_create"]
    /\ UNCHANGED <<sessions, messages, summaries, embeddings, tier1_cache, tier2_cache,
                   orchestrator, req, bgpc, embpc, ctx, upstream, full_response, sse,
                   existing, stored, embed_ids, retrieval_fault, events>>

\* store_tier3_content, step 2: ensure_session_exists creates the row; a
\* failure ends store_tier3_content with an error, which the orchestrator logs
T3Create(t) ==
    /\ pc[t] = "t3_create"
    /\ LET r == create_session_with_id(sessions, Sid)
       IN  /\ sessions' = r.sessions
           /\ pc' = [pc EXCEPT ![t] = IF r.ok THEN "t3_read" ELSE "plan"]
    /\ UNCHANGED <<messages, summaries, embeddings, tier1_cache, tier2_cache,
                   orchestrator, req, bgpc, embpc, ctx, upstream, full_response, sse,
                   existing, stored, embed_ids, retrieval_fault, events>>

\* store_tier3_content, step 3: read the existing rows and deduplicate
T3Read(t) ==
    /\ pc[t] = "t3_read"
    /\ LET ex == get_session_messages(messages, Sid, Tier3ScanLimit, 0)
       IN  /\ existing' = [existing EXCEPT ![t] = ex]
           /\ pc' = [pc EXCEPT ![t] =
                        IF Tier3NewMessages(ex, <<req[t][Len(req[t])]>>) = <<>>
                        THEN "plan" ELSE "t3_insert"]
    /\ UNCHANGED <<sessions, messages, summaries, embeddings, tier1_cache, tier2_cache,
                   orchestrator, req, bgpc, embpc, ctx, upstream, full_response, sse,
                   stored, embed_ids, retrieval_fault, events>>

\* store_tier3_content, step 4: the batch insert at index existing.len()
T3Insert(t) ==
    /\ pc[t] = "t3_insert"
    /\ \E fk \in BOOLEAN :
          LET new == Tier3NewMessages(existing[t], <<req[t][Len(req[t])]>>)
              r == store_messages_batch(sessions, messages, Sid, Tier3Batch(existing[t], new), fk)
          IN  sessions' = r.sessions /\ messages' = r.messages
    /\ pc' = [pc EXCEPT ![t] = "plan"]
    /\ UNCHANGED <<summaries, embeddings, tier1_cache, tier2_cache,
                   orchestrator, req, bgpc, embpc, ctx, upstream, full_response, sse,
                   existing, stored, embed_ids, retrieval_fault, events>>

\* Plan with a retrieval fault propagated to the handler as an error response
Plan_Propagate(t) ==
    /\ pc[t] = "plan"
    /\ \E fault \in Faults :
          LET r == PlanAndBuild(Sid, req[t], UserQuery(req[t]), sessions, messages, summaries,
                                embeddings, tier1_cache, tier2_cache, fault)
          IN  /\ ctx' = [ctx EXCEPT ![t] = IF fault = "none" THEN r.out ELSE <<>>]
              /\ tier2_cache' = r.tier2_cache
              /\ retrieval_fault' = [retrieval_fault EXCEPT ![t] = fault]
              /\ pc' = [pc EXCEPT ![t] = IF fault = "none" THEN "llm" ELSE "rejected"]
    /\ Log(t, "context_build")
    /\ UNCHANGED <<sessions, messages, summaries, embeddings, tier1_cache,
                   orchestrator, req, bgpc, embpc, upstream, full_response, sse,
                   existing, stored, embed_ids>>

\* the rest of process_conversation: plan, retrieval and context build
Plan(t) ==
    /\ pc[t] = "plan"
    /\ \E fault \in Faults :
          LET r == PlanAndBuild(Sid, req[t], UserQuery(req[t]), sessions, messages, summaries,
                                embeddings, tier1_cache, tier2_cache, fault)
          IN  /\ ctx' = [ctx EXCEPT ![t] = r.out]
              /\ tier2_cache' = r.tier2_cache
              /\ retrieval_fault' = [retrieval_fault EXCEPT ![t] = fault]
    /\ pc' = [pc EXCEPT ![t] = "llm"]
    /\ Log(t, "context_build")
    /\ UNCHANGED <<sessions, messages, summaries, embeddings, tier1_cache,
                   orchestrator, req, bgpc, embpc, upstream, full_response, sse,
                   existing, stored, embed_ids>>

\* llm_worker.stream_response succeeds: the SSE response starts
LlmStart(t) ==
    /\ pc[t] = "llm"
    /\ \E u \in Upstreams : upstream' = [upstream EXCEPT ![t] = u]
    /\ pc' = [pc EXCEPT ![t] = "stream"]
    /\ Log(t, "stream_start")
    /\ UNCHANGED <<sessions, messages, summaries, embeddings, tier1_cache, tier2_cache,
                   orchestrator, req, bgpc, embpc, ctx, full_response, sse,
                   existing, stored, embed_ids, retrieval_fault>>

\* llm_worker.stream_response fails: 502, nothing is streamed or persisted
LlmFail(t) ==
    /\ pc[t] = "llm"
    /\ pc' = [pc EXCEPT ![t] = "bad_gateway"]
    /\ DropLocals(t)
    /\ UNCHANGED <<sessions, messages, summaries, embeddings, tier1_cache, tier2_cache,
                   orchestrator, req, bgpc, embpc, sse, stored, embed_ids, retrieval_fault, events>>

\* one iteration of the while-let loop: accumulate and yield, or yield the
\* error event and leave the loop
ForwardItem(t) ==
    /\ pc[t] = "stream"
    /\ upstream[t] # <<>>
    /\ LET item == Head(upstream[t])
       IN  /\ upstream' = [upstream EXCEPT ![t] = Tail(@)]
           /\ full_response' = [full_response EXCEPT ![t] =
                                   IF item.kind = "tok" THEN @ \o item.words ELSE @]
           /\ sse' = [sse EXCEPT ![t] = Append(@, item.kind)]
           /\ pc' = [pc EXCEPT ![t] = IF item.kind = "err" THEN "err_yielded" ELSE "stream"]
    /\ UNCHANGED <<sessions, messages, summaries, embeddings, tier1_cache, tier2_cache,
                   orchestrator, req, bgpc, embpc, ctx,
                   existing, stored, embed_ids, retrieval_fault, events>>

\* StreamEnd leaving the loop while the upstream still has items
StreamEnd_BeforeNone(t) ==
    /\ pc[t] \in {"stream", "err_yielded"}
    /\ pc' = [pc EXCEPT ![t] = "persist"]
    /\ UNCHANGED <<sessions, messages, summaries, embeddings, tier1_cache, tier2_cache,
                   orchestrator, req, bgpc, embpc, ctx, upstream, full_response, sse,
                   existing, stored, embed_ids, retrieval_fault, events>>

\* the loop is left: the upstream returned None, or the generator is resumed
\* after the error event
StreamEnd(t) ==
    /\ \/ pc[t] = "stream" /\ upstream[t] = <<>>
       \/ pc[t] = "err_yielded"
    /\ pc' = [pc EXCEPT ![t] = "persist"]
    /\ UNCHANGED <<sessions, messages, summaries, embeddings, tier1_cache, tier2_cache,
                   orchestrator, req, bgpc, embpc, ctx, upstream, full_response, sse,
                   existing, stored, embed_ids, retrieval_fault, events>>

\* PersistAssistant spawning the embedding task whatever the insert returned
PersistAssistant_SpawnAlways(t) ==
    /\ pc[t] = "persist"
    /\ IF full_response[t] = <<>>
       THEN UNCHANGED <<sessions, messages, stored, embpc, events>>
       ELSE \E fk \in BOOLEAN :
               LET r == store_messages_batch(sessions, messages, Sid,
                            <<BatchItem("assistant", Raw(full_response[t]), Len(req[t]))>>, fk)
               IN  /\ sessions' = r.sessions
                   /\ messages' = r.messages
                   /\ stored' = [stored EXCEPT ![t] = [i \in 1..Len(r.stored) |-> r.stored[i].id]]
                   /\ embpc' = [embpc EXCEPT ![t] = "lookup"]
                   /\ IF r.ok THEN Log(t, "assistant_persist") ELSE UNCHANGED events
    /\ pc' = [pc EXCEPT ![t] = "done"]
    /\ DropLocals(t)
    /\ UNCHANGED <<summaries, embeddings, tier1_cache, tier2_cache,
                   orchestrator, req, bgpc, sse, embed_ids, retrieval_fault>>

\* after the loop: persist the assistant message at index req.messages.len()
\* and, when that succeeded, spawn the embedding task
PersistAssistant(t) ==
    /\ pc[t] = "persist"
    /\ IF full_response[t] = <<>>
       THEN UNCHANGED <<sessions, messages, stored, embpc, events>>
       ELSE \E fk \in BOOLEAN :
               LET r == store_messages_batch(sessions, messages, Sid,
                            <<BatchItem("assistant", Raw(full_response[t]), Len(req[t]))>>, fk)
               IN  /\ sessions' = r.sessions
                   /\ messages' = r.messages
                   /\ IF r.ok
                      THEN /\ stored' = [stored EXCEPT ![t] = [i \in 1..Len(r.stored) |-> r.stored[i].id]]
                           /\ embpc' = [embpc EXCEPT ![t] = "lookup"]
                           /\ Log(t, "assistant_persist")
                      ELSE UNCHANGED <<stored, embpc, events>>
    /\ pc' = [pc EXCEPT ![t] = "done"]
    /\ DropLocals(t)
    /\ UNCHANGED <<summaries, embeddings, tier1_cache, tier2_cache,
                   orchestrator, req, bgpc, sse, embed_ids, retrieval_fault>>

\* the client drops the SSE connection: the request task is dropped at its
\* current suspension point
ClientDrop(t) ==
    /\ pc[t] \in {"llm", "stream", "err_yielded"}
    /\ pc' = [pc EXCEPT ![t] = "cancelled"]
    /\ DropLocals(t)
    /\ UNCHANGED <<sessions, messages, summaries, embeddings, tier1_cache, tier2_cache,
                   orchestrator, req, bgpc, embpc, sse, stored, embed_ids, retrieval_fault, events>>

RECURSIVE NewestFirst(_, _)
NewestFirst(msgs, ids) ==
    IF ids = {} THEN <<>>
    ELSE LET first == CHOOSE i \in ids : \A j \in ids : i >= j
         IN  <<msgs[first]>> \o NewestFirst(msgs, ids \ {first})

\* MemoryDatabase::search_messages_by_keywords: every keyword LIKE-matches,
\* ORDER BY timestamp DESC LIMIT ?
search_messages_by_keywords(msgs, sid, keywords, limit) ==
    Take(NewestFirst(msgs,
            {i \in SessionRowSet(msgs, sid) :
                \A k \in 1..Len(keywords) : ContainsPhrase(msgs[i].content.body, keywords[k])}),
         limit)

\* embedding task: collect the texts and the ids of their rows
EmbedLookup(t) ==
    /\ embpc[t] = "lookup"
    /\ LET ut == user_msg_content(req[t])
           found == IF ut = None THEN <<>>
                    ELSE search_messages_by_keywords(messages, Sid, <<ut[1].body>>, 1)
           ids == (IF found = <<>> THEN <<>> ELSE <<found[1].id>>) \o Take(stored[t], 1)
       IN  /\ embed_ids' = [embed_ids EXCEPT ![t] = ids]
           /\ embpc' = [embpc EXCEPT ![t] = IF ids = <<>> THEN "done" ELSE "generate"]
    /\ UNCHANGED <<sessions, messages, summaries, embeddings, tier1_cache, tier2_cache,
                   orchestrator, req, pc, bgpc, ctx, upstream, full_response, sse,
                   existing, stored, retrieval_fault, events>>

RECURSIVE MarkAll(_, _)
MarkAll(msgs, ids) ==
    IF ids = <<>> THEN msgs ELSE MarkAll(mark_embedding_generated(msgs, Head(ids)), Tail(ids))

\* EmbedGenerate marking the collected messages in the Err arm too
EmbedGenerate_MarkOnError(t) ==
    /\ embpc[t] = "generate"
    /\ \E outcome \in {"ok", "short", "gateway_error", "store_error"} :
          CASE outcome = "ok" ->
                  /\ embeddings' = embeddings \cup {embed_ids[t][i] : i \in 1..Len(embed_ids[t])}
                  /\ messages' = MarkAll(messages, embed_ids[t])
                  /\ embpc' = [embpc EXCEPT ![t] = "done"]
                  /\ Log(t, "embed_persist")
            [] outcome = "short" ->
                  /\ embeddings' = embeddings \cup
                                       {embed_ids[t][i] : i \in 1..(Len(embed_ids[t]) - 1)}
                  /\ messages' = MarkAll(messages, embed_ids[t])
                  /\ embpc' = [embpc EXCEPT ![t] = "done"]
                  /\ Log(t, "embed_persist")
            [] outcome = "store_error" ->
                  /\ messages' = MarkAll(messages, embed_ids[t])
                  /\ embpc' = [embpc EXCEPT ![t] = "done"]
                  /\ UNCHANGED <<embeddings, events>>
            [] OTHER ->
                  /\ embpc' = [embpc EXCEPT ![t] = "skipped"]
                  /\ messages' = MarkAll(messages, embed_ids[t]) /\ UNCHANGED <<embeddings, events>>
    /\ embed_ids' = [embed_ids EXCEPT ![t] = <<>>]
    /\ stored' = [stored EXCEPT ![t] = <<>>]
    /\ UNCHANGED <<sessions, summaries, tier1_cache, tier2_cache,
                   orchestrator, req, pc, bgpc, ctx, upstream, full_response, sse,
                   existing, retrieval_fault>>

\* embedding task: the gateway call, then store and mark; the vectors are
\* zipped with the ids, so a reply one vector short stores one row less; a
\* gateway error is logged ("Embedding generation skipped") and leaves the store alone, a
\* failing store_embedding is logged and the messages are marked all the
\* same; the task ends and drops its locals
EmbedGenerate(t) ==
    /\ embpc[t] = "generate"
    /\ \E outcome \in {"ok", "short", "gateway_error", "store_error"} :
          CASE outcome = "ok" ->
                  /\ embeddings' = embeddings \cup {embed_ids[t][i] : i \in 1..Len(embed_ids[t])}
                  /\ messages' = MarkAll(messages, embed_ids[t])
                  /\ embpc' = [embpc EXCEPT ![t] = "done"]
                  /\ Log(t, "embed_persist")
            [] outcome = "short" ->
                  /\ embeddings' = embeddings \cup
                                       {embed_ids[t][i] : i \in 1..(Len(embed_ids[t]) - 1)}
                  /\ messages' = MarkAll(messages, embed_ids[t])
                  /\ embpc' = [embpc EXCEPT ![t] = "done"]
                  /\ Log(t, "embed_persist")
            [] outcome = "store_error" ->
                  /\ messages' = MarkAll(messages, embed_ids[t])
                  /\ embpc' = [embpc EXCEPT ![t] = "done"]
                  /\ UNCHANGED <<embeddings, events>>
            [] OTHER ->
                  /\ embpc' = [embpc EXCEPT ![t] = "skipped"]
                  /\ UNCHANGED <<embeddings, messages, events>>
    /\ embed_ids' = [embed_ids EXCEPT ![t] = <<>>]
    /\ stored' = [stored EXCEPT ![t] = <<>>]
    /\ UNCHANGED <<sessions, summaries, tier1_cache, tier2_cache,
                   orchestrator, req, pc, bgpc, ctx, upstream, full_response, sse,
                   existing, retrieval_fault>>

\* ------------------------------------------------------------------------
\* Direct calls of the orchestrator API and of the builder
\* ------------------------------------------------------------------------

VARIABLES
    calls,      \* the direct API calls made so far, newest last: arguments and outcome
    b_in,       \* arguments of build_context
    b_out       \* Option of the context build_context returned

\* the KV-cache manager and the tables it writes
VARIABLES
    patterns,           \* CacheExtractor.patterns in the iteration order of this HashMap
    session_state,      \* KVCacheManager.session_state of the one session, an Option
    kv_snapshots,       \* rows of table kv_snapshots
    kv_cache_entries,   \* rows of table kv_cache_entries
    kv_cache_metadata,  \* rows of table kv_cache_metadata, at most one per session
    kv_calls,           \* the calls of the cache manager made so far, newest last
    kv_config,          \* KVCacheManager.config: enabled and the snapshot strategy
    kv_clock,           \* Utc::now() and the database's clock, in seconds
    kv_schema           \* what kv_cache_entries.last_accessed holds when an INSERT leaves it out

cacheVars == <<patterns, session_state, kv_snapshots, kv_cache_entries, kv_cache_metadata,
               kv_calls, kv_config, kv_clock, kv_schema>>

\* the cache scorer
VARIABLES
    key_engagement,     \* CacheEntryScorer.key_engagement, values in ten-thousandths
    scorer_updates      \* update_engagement calls made so far

scorerVars == <<key_engagement, scorer_updates>>

\* the pending-message queue of one session
VARIABLES
    message_queues,     \* Option of the session's ArrayQueue in the DashMap
    shard_lock,         \* holder of the DashMap shard's lock, "free" if none
    qpc,                \* position of each producer and of the consumer
    queued,             \* per producer, the queue_message calls it has finished
    queue_result,       \* per producer, Option of its newest call's outcome
    drained             \* number of messages the consumer has popped in its current call

queueVars == <<message_queues, shard_lock, qpc, queued, queue_result, drained>>

\* the runtime manager, its caller and the readers of its holder
VARIABLES
    holders,        \* every RuntimeHolder allocated so far: its runtime and whether dropped
    holder,         \* index of the holder the ArcSwap points to
    child,          \* per runtime, its llama-server process: "running" or "killed"
    guards,         \* per reader, Option of the holder its load() guard refers to
    observed,       \* per reader, the runtimes its calls found, newest last
    mpc,            \* position of the manager's caller
    old_holder,     \* Option of the holder shutdown() has swapped out
    mgr_calls,      \* manager operations begun so far, newest last
    shutdown_log    \* per return of shutdown(): the runtime swapped out and its process

runtimeVars == <<holders, holder, child, guards, observed, mpc, old_holder, mgr_calls,
                 shutdown_log>>

\* one token stream read from the model server
VARIABLES
    producer,       \* "llm_worker" (stream_response) or "gguf" (generate_stream)
    byte_stream,    \* the lines the server has still to send
    stream_end,     \* how the server's response ends after them: "eof" or "error"
    yielded,        \* the SSE lines the producer has yielded
    delivered,      \* the events the consumer of the stream has received
    stream_state    \* "open", "ended" or "failed"

streamVars == <<producer, byte_stream, stream_end, yielded, delivered, stream_state>>

\* the connection pool of the database and the tables only deletion touches
VARIABLES
    pool_fk,        \* per pooled connection, whether it enforces foreign keys
    details,        \* rows of table details
    deletes,        \* the delete_session calls made so far, newest last
    session_meta,   \* sessions.metadata: session id -> [title, pinned]
    responses       \* the conversation endpoints' responses so far, newest last

poolVars == <<pool_fk, details, deletes, session_meta, responses>>

\* concurrent callers of store_tier3_content for one session
VARIABLES
    store_msg,      \* per caller, the message its call carries
    store_pc,       \* per caller, its position in store_tier3_content
    store_existing, \* per caller, the existing_messages it has read
    store_result    \* per caller, Option of what its call returned: "ok" or "err"

tier3Vars == <<store_msg, store_pc, store_existing, store_result>>

\* the in-memory session table and the tasks that look sessions up in it
VARIABLES
    mem_sessions,    \* conversations.sessions: session id -> Option of the Arc the map holds
    arcs,            \* every Arc<RwLock<SessionData>> allocated so far
    active_sessions, \* counters.active_sessions
    gpc,             \* per task, its position in process_message
    g_sid,           \* per task, the session id of its call
    g_arc,           \* per task, Option of the Arc get_or_create_session handed it
    session_calls    \* the process_message calls finished so far, newest last

memVars == <<mem_sessions, arcs, active_sessions, gpc, g_sid, g_arc, session_calls>>

\* the transactions with_transaction opens on the pooled connections
VARIABLES
    db_rows,        \* ids of the committed rows: what every connection reads
    tx_pending,     \* per pooled connection, Option of the rows written in its open transaction
    tx_pc,          \* position of the caller of with_transaction: "idle" or "f"
    tx_conn,        \* the connection the Transaction in hand holds
    tx_calls,       \* the with_transaction calls begun so far, newest last
    next_row        \* id of the next row written

txVars == <<db_rows, tx_pending, tx_pc, tx_conn, tx_calls, next_row>>

componentVars == <<cacheVars, scorerVars, queueVars, runtimeVars, streamVars, poolVars, tier3Vars, memVars, txVars>>

vars == <<sessions, messages, summaries, embeddings, tier1_cache, tier2_cache, orchestrator,
          req, pc, bgpc, embpc, ctx, upstream, full_response, sse, existing, stored,
          embed_ids, retrieval_fault, events, calls, b_in, b_out, componentVars>>

storeVars == <<sessions, messages, summaries, embeddings, tier1_cache, tier2_cache, orchestrator>>

turnVars == <<req, pc, bgpc, embpc, ctx, upstream, full_response, sse, existing, stored,
              embed_ids, retrieval_fault, events>>

\* ------------------------------------------------------------------------
\* Initial states
\* ------------------------------------------------------------------------

AllSessions == {"s0", "s1"}

SummaryA ==
    [summary_text |-> <<"budget", "talk">>, key_topics |-> << <<"budget">> >>,
     age_hours |-> 0, compression_ratio |-> 300]

\* a fresh database
EmptyStore ==
    [sessions |-> << >>, messages |-> <<>>,
     summaries |-> [x \in AllSessions |-> <<>>], embeddings |-> {}]

\* a database after earlier conversations: two sessions of two messages each,
\* embedded, and one summary of the current session
SeededStore ==
    [sessions |-> [x \in AllSessions |-> [last_accessed |-> 2]],
     messages |-> MarkAll(
                   << Row(1, "s0", 0, "user", Raw(<<"notes", "about", "the", "budget", "plan">>)),
                      Row(2, "s0", 1, "assistant", Raw(<<"noted">>)),
                      Row(3, "s1", 0, "user", Raw(BudgetNote)),
                      Row(4, "s1", 1, "assistant", Raw(<<"noted">>)) >>,
                   <<1, 2, 3, 4>>),
     summaries |-> [x \in AllSessions |-> IF x = "s1" THEN <<SummaryA>> ELSE <<>>],
     embeddings |-> {1, 2, 3, 4}]

InitStore(st) ==
    /\ sessions = st.sessions
    /\ messages = st.messages
    /\ summaries = st.summaries
    /\ embeddings = st.embeddings
    /\ tier1_cache = [x \in AllSessions |-> None]
    /\ tier2_cache = [x \in AllSessions |-> None]

InitTurns ==
    /\ req = [t \in Turns |-> <<>>]
    /\ pc = [t \in Turns |-> "idle"]
    /\ bgpc = [t \in Turns |-> "none"]
    /\ embpc = [t \in Turns |-> "none"]
    /\ ctx = [t \in Turns |-> <<>>]
    /\ upstream = [t \in Turns |-> <<>>]
    /\ full_response = [t \in Turns |-> <<>>]
    /\ sse = [t \in Turns |-> <<>>]
    /\ existing = [t \in Turns |-> <<>>]
    /\ stored = [t \in Turns |-> <<>>]
    /\ embed_ids = [t \in Turns |-> <<>>]
    /\ retrieval_fault = [t \in Turns |-> "none"]
    /\ events = [t \in Turns |-> <<>>]

NoBuilderInput ==
    [current_messages |-> <<>>, tier1_content |-> None, tier2_summaries |-> None,
     tier3_messages |-> None, cross_session_messages |-> None, user_query |-> None]

\* the iteration order of a HashMap is fixed by its hasher; one order stands for
\* an extractor nobody looks at
DefaultPatternOrder ==
    <<"SystemPrompt", "CodeBlock", "ImportantConcept", "Question", "NumericData">>

\* KVCacheConfig::default
DefaultKvConfig == [enabled |-> TRUE, snapshot_strategy |-> "Incremental"]

\* KVCacheManager::new and an empty database
InitCacheIdle ==
    /\ kv_config = DefaultKvConfig
    /\ kv_clock = 0 /\ kv_schema = "NULL"
    /\ patterns = DefaultPatternOrder
    /\ session_state = None
    /\ kv_snapshots = <<>>
    /\ kv_cache_entries = <<>>
    /\ kv_cache_metadata = <<>>
    /\ kv_calls = <<>>

\* CacheEntryScorer::new
InitScorerIdle == key_engagement = <<>> /\ scorer_updates = 0

QueueThreads == {"p1", "p2", "consumer"}
Producers == {"p1", "p2"}

\* ConversationHierarchy::new, nobody calling
InitQueueIdle ==
    /\ message_queues = None
    /\ shard_lock = "free"
    /\ qpc = [t \in QueueThreads |-> "idle"]
    /\ queued = [p \in Producers |-> 0]
    /\ queue_result = [p \in Producers |-> None]
    /\ drained = 0

Readers == {"g1", "g2"}

\* runtimes are numbered in the order of their creation; 0 is `runtime: None`
NoRuntime == 0

RuntimeHolder(runtime) == [runtime |-> runtime, dropped |-> FALSE]

\* RuntimeManager::new, nobody calling
InitRuntimeIdle ==
    /\ holders = <<RuntimeHolder(NoRuntime)>>
    /\ holder = 1
    /\ child = <<>>
    /\ guards = [r \in Readers |-> None]
    /\ observed = [r \in Readers |-> <<>>]
    /\ mpc = "idle"
    /\ old_holder = None
    /\ mgr_calls = <<>>
    /\ shutdown_log = <<>>

\* no stream requested
InitStreamIdle ==
    /\ producer = "llm_worker"
    /\ byte_stream = <<>>
    /\ stream_end = "eof"
    /\ yielded = <<>>
    /\ delivered = <<>>
    /\ stream_state = "ended"

\* Pool::builder().max_size(10) scaled to three connections
Conns == {1, 2, 3}

\* no delete has been issued; the first connection ran PRAGMA foreign_keys = ON
InitPoolIdle ==
    /\ pool_fk = [c \in Conns |-> c = 1] /\ details = <<>> /\ deletes = <<>>
    /\ session_meta = << >> /\ responses = <<>>

Callers == {"a", "b"}

\* no store_tier3_content call is in flight
InitTier3Idle ==
    /\ store_msg = [c \in Callers |-> U(<<"Hello">>)]
    /\ store_pc = [c \in Callers |-> "done"]
    /\ store_existing = [c \in Callers |-> <<>>]
    /\ store_result = [c \in Callers |-> None]

MemSids == {"s1", "s2"}

\* no session is in the table and no task is inside process_message
InitMemIdle ==
    /\ mem_sessions = [sid \in MemSids |-> None] /\ arcs = <<>> /\ active_sessions = 0
    /\ gpc = [c \in Callers |-> "idle"] /\ g_sid = [c \in Callers |-> "s1"]
    /\ g_arc = [c \in Callers |-> None] /\ session_calls = <<>>

\* an empty database; no pooled connection has a transaction open
InitTxIdle ==
    /\ db_rows = {} /\ tx_pending = [c \in Conns |-> None] /\ tx_pc = "idle"
    /\ tx_conn = 1 /\ tx_calls = <<>> /\ next_row = 1

InitIdleComponents ==
    InitCacheIdle /\ InitScorerIdle /\ InitQueueIdle /\ InitRuntimeIdle /\ InitStreamIdle /\ InitPoolIdle /\ InitTier3Idle /\ InitMemIdle /\ InitTxIdle

InitIdleApi ==
    calls = <<>> /\ b_in = NoBuilderInput /\ b_out = None /\ InitIdleComponents

Init ==
    /\ \E st \in {EmptyStore, SeededStore} : InitStore(st)
    /\ orchestrator \in {"none", "enabled"}
    /\ InitTurns
    /\ InitIdleApi

Next ==
    \/ \E t \in Turns, r \in Requests : StartTurn(t, r) /\ UNCHANGED <<calls, b_in, b_out, componentVars>>
    \/ \E t \in Turns : BgCreate(t) /\ UNCHANGED <<calls, b_in, b_out, componentVars>>
    \/ \E t \in Turns : BgInsert(t) /\ UNCHANGED <<calls, b_in, b_out, componentVars>>
    \/ \E t \in Turns : T3Get(t) /\ UNCHANGED <<calls, b_in, b_out, componentVars>>
    \/ \E t \in Turns : T3Create(t) /\ UNCHANGED <<calls, b_in, b_out, componentVars>>
    \/ \E t \in Turns : T3Read(t) /\ UNCHANGED <<calls, b_in, b_out, componentVars>>
    \/ \E t \in Turns : T3Insert(t) /\ UNCHANGED <<calls, b_in, b_out, componentVars>>
    \/ \E t \in Turns : Plan(t) /\ UNCHANGED <<calls, b_in, b_out, componentVars>>
    \/ \E t \in Turns : LlmStart(t) /\ UNCHANGED <<calls, b_in, b_out, componentVars>>
    \/ \E t \in Turns : LlmFail(t) /\ UNCHANGED <<calls, b_in, b_out, componentVars>>
    \/ \E t \in Turns : ForwardItem(t) /\ UNCHANGED <<calls, b_in, b_out, componentVars>>
    \/ \E t \in Turns : StreamEnd(t) /\ UNCHANGED <<calls, b_in, b_out, componentVars>>
    \/ \E t \in Turns : PersistAssistant(t) /\ UNCHANGED <<calls, b_in, b_out, componentVars>>
    \/ \E t \in Turns : ClientDrop(t) /\ UNCHANGED <<calls, b_in, b_out, componentVars>>
    \/ \E t \in Turns : EmbedLookup(t) /\ UNCHANGED <<calls, b_in, b_out, componentVars>>
    \/ \E t \in Turns : EmbedGenerate(t) /\ UNCHANGED <<calls, b_in, b_out, componentVars>>

\* the streaming pipeline: turns of one session with their detached tasks;
\* the client sends a follow-up once the previous turn has settled
Spec == Init /\ [][Next]_vars

\* ------------------------------------------------------------------------
\* Direct calls of the orchestrator (context_engine/orchestrator.rs)
\* ------------------------------------------------------------------------

\* number of calls made one after the other
MaxCalls == 2

\* message lists handed to store_tier3_content
Tier3Inputs ==
    { <<U(<<"Hello">>)>>,
      <<U(BudgetNote), A(<<"noted">>)>>,
      <<U(<<"Hello">>), U(<<"Hello">>)>>,
      <<A(<<"hi">>), U(BudgetNote)>> }

\* every message of msgs equals a stored row of the session in (role, content)
AllStored(rows, sid, msgs) ==
    \A k \in 1..Len(msgs) :
        \E i \in SessionRowSet(rows, sid) :
            rows[i].role = msgs[k].role /\ rows[i].content = msgs[k].content

UnchangedTurns ==
    UNCHANGED <<orchestrator, req, pc, bgpc, embpc, ctx, upstream, full_response, sse,
                existing, stored, embed_ids, retrieval_fault, events, b_in, b_out,
                componentVars>>

\* tier_manager.store_tier3_content(session_id, messages)
CallStoreTier3(new) ==
    /\ Len(calls) < MaxCalls
    /\ \E fk \in BOOLEAN :
          LET r == store_tier3_content(sessions, messages, Sid, new, fk)
          IN  /\ sessions' = r.sessions
              /\ messages' = r.messages
              /\ calls' = Append(calls,
                     [op |-> "store_tier3_content", msgs |-> new, fault |-> "none",
                      dup |-> AllStored(messages, Sid, new),
                      inserted |-> Len(r.messages) - Len(messages), out |-> <<>>])
    /\ UNCHANGED <<summaries, embeddings, tier1_cache, tier2_cache>>
    /\ UnchangedTurns

\* orchestrator.save_assistant_response(session_id, response)
CallSaveAssistant(words) ==
    /\ Len(calls) < MaxCalls
    /\ \E fk \in BOOLEAN :
          LET new == <<A(words)>>
              r == store_tier3_content(sessions, messages, Sid, new, fk)
          IN  /\ sessions' = r.sessions
              /\ messages' = r.messages
              /\ calls' = Append(calls,
                     [op |-> "save_assistant_response", msgs |-> new, fault |-> "none",
                      dup |-> AllStored(messages, Sid, new),
                      inserted |-> Len(r.messages) - Len(messages), out |-> <<>>])
    /\ UNCHANGED <<summaries, embeddings, tier1_cache, tier2_cache>>
    /\ UnchangedTurns

\* orchestrator.process_conversation(session_id, messages, user_query)
CallProcess(enabled, r, fault) ==
    /\ Len(calls) < MaxCalls
    /\ \E fk \in BOOLEAN :
          \E p \in {process_conversation(enabled, Sid, r, UserQuery(r), sessions, messages,
                                        summaries, embeddings, tier1_cache, tier2_cache,
                                        fault, fk)} :
              /\ sessions' = p.sessions
              /\ messages' = p.messages
              /\ tier1_cache' = p.tier1_cache
              /\ tier2_cache' = p.tier2_cache
              /\ calls' = Append(calls,
                     [op |-> "process_conversation", msgs |-> r, fault |-> fault,
                      dup |-> AllStored(messages, Sid, r),
                      inserted |-> Len(p.messages) - Len(messages), out |-> p.out,
                      enabled |-> enabled, plan |-> p.plan])
    /\ UNCHANGED <<summaries, embeddings>>
    /\ UnchangedTurns

InitOrch ==
    /\ \E st \in {EmptyStore, SeededStore} : InitStore(st)
    /\ orchestrator = "enabled"
    /\ InitTurns
    /\ InitIdleApi

NextOrch ==
    \/ \E new \in Tier3Inputs : CallStoreTier3(new)
    \/ \E words \in {<<"hi">>, <<"noted">>} : CallSaveAssistant(words)
    \/ \E enabled \in BOOLEAN, r \in Requests, fault \in Faults : CallProcess(enabled, r, fault)

\* calls of the orchestrator API made one after the other by one caller
SpecOrch == InitOrch /\ [][NextOrch]_vars

\* ------------------------------------------------------------------------
\* Direct calls of the context builder (context_engine/context_builder.rs)
\* ------------------------------------------------------------------------

\* number of session summaries handed to the builder
MaxSummaries == 2

SummaryB ==
    [summary_text |-> <<"plan", "for", "the", "trip">>, key_topics |-> << <<"trip">> >>,
     age_hours |-> 48, compression_ratio |-> 1200]

SummaryC ==
    [summary_text |-> <<"weather">>, key_topics |-> << <<"weather">> >>,
     age_hours |-> 0, compression_ratio |-> 500]

\* a summary whose text alone fills the summary budget
SummaryBig ==
    [summary_text |-> <<"SUMBLOB">>, key_topics |-> << <<"budget">> >>,
     age_hours |-> 0, compression_ratio |-> 300]

SummaryPool == <<SummaryA, SummaryB, SummaryC, SummaryA, SummaryB, SummaryC>>

LongChat ==
    <<U(<<"Hello">>), A(<<"hi">>), U(BudgetNote), A(<<"noted">>), U(<<"Hello">>),
      A(<<"hi">>), U(PastQuery)>>

BuilderMessages ==
    { <<U(<<"Hello">>)>>,
      <<A(<<"noted">>)>>,
      <<U(<<"BLOB">>)>>,
      <<S(<<"be", "brief">>), U(PastQuery)>>,
      LongChat }

\* rows as Tier 3 and the cross-session search return them
StoredRows(sid) == get_session_messages(SeededStore.messages, sid, Tier3ScanLimit, 0)

BuilderInputs ==
    [current_messages : BuilderMessages,
     tier1_content : {None},
     tier2_summaries : {None, Some(<<SummaryBig>>)}
                       \cup {Some(Take(SummaryPool, n)) : n \in 0..MaxSummaries},
     tier3_messages : {None, Some(StoredRows("s1"))},
     cross_session_messages : {None, Some(StoredRows("s0"))},
     user_query : {None, Some(<<"Hello">>), Some(PastQuery)}]

\* the caller passes no Tier 1 content, or the messages of the request as the
\* orchestrator caches them
InitBuilder ==
    /\ InitStore(EmptyStore)
    /\ orchestrator = "enabled"
    /\ InitTurns
    /\ calls = <<>>
    /\ b_out = None
    /\ InitIdleComponents
    /\ \E i \in BuilderInputs, with_tier1 \in BOOLEAN :
          b_in = [i EXCEPT !.tier1_content =
                     IF with_tier1 THEN Some(i.current_messages) ELSE None]

\* builder.build_context(...)
Build ==
    /\ b_out = None
    /\ b_out' = Some(build_context(b_in.current_messages, b_in.tier1_content,
                                   b_in.tier2_summaries, b_in.tier3_messages,
                                   b_in.cross_session_messages, b_in.user_query))
    /\ UNCHANGED <<sessions, messages, summaries, embeddings, tier1_cache, tier2_cache,
                   orchestrator, req, pc, bgpc, embpc, ctx, upstream, full_response, sse,
                   existing, stored, embed_ids, retrieval_fault, events, calls, b_in,
                   componentVars>>

NextBuilder == Build

\* one build_context call on each input
SpecBuilder == InitBuilder /\ [][NextBuilder]_vars

\* ------------------------------------------------------------------------
\* KV-cache management: extraction, preservation, snapshots
\* (cache_management/cache_extractor.rs, cache_manager.rs, memory_db/mod.rs)
\* ------------------------------------------------------------------------

\* KVEntry: key_data is an Option of the words of the key text, value_len is
\* value_data.len(), importance_score is in thousandths
KVEntry(h, kt, kd, vl, sc) ==
    [key_hash |-> h, key_type |-> kt, key_data |-> kd, value_len |-> vl,
     importance_score |-> sc]

\* CacheExtractorConfig::default
min_value_size == 10
max_value_size == 10000

\* KVCacheConfig::default, scores in thousandths
min_importance_to_preserve == 700
preserve_system_prompts == TRUE
preserve_code_entries == TRUE
memory_threshold_percent_num == 6

\* the words each pattern of CacheExtractor::new finds in a lower-case key text
PatternWords(entry_type) ==
    CASE entry_type = "SystemPrompt" -> {"system", "instruction", "prompt"}
      [] entry_type = "CodeBlock" -> {"def", "function", "class", "import", "return", "rust"}
      [] entry_type = "ImportantConcept" -> {"important", "critical", "must", "key", "main"}
      [] entry_type = "Question" -> {"what", "how", "why", "explain"}
      [] entry_type = "NumericData" -> {"date", "time", "year"}

\* pattern.is_match(key_str); the Question pattern is anchored at the start
is_match(entry_type, key_str) ==
    IF entry_type = "Question"
    THEN key_str # <<>> /\ key_str[1] \in PatternWords(entry_type)
    ELSE \E i \in 1..Len(key_str) : key_str[i] \in PatternWords(entry_type)

classify_entry(pats, entry) ==
    LET base_type ==
            CASE entry.key_type = "attention_key" -> "AttentionKey"
              [] entry.key_type = "attention_value" -> "AttentionValue"
              [] entry.key_type = "ffn_key" -> "FFNKey"
              [] entry.key_type = "ffn_value" -> "FFNValue"
              [] OTHER -> "AttentionKey"
        hits == IF entry.key_data = None THEN {}
                ELSE {i \in 1..Len(pats) : is_match(pats[i], entry.key_data[1])}
    IN  IF hits = {} THEN base_type
        ELSE pats[CHOOSE i \in hits : \A j \in hits : i <= j]

ExtractedCacheEntry(pats, entry) ==
    [entry_type |-> classify_entry(pats, entry), key_hash |-> entry.key_hash,
     key_data |-> entry.key_data, value_len |-> entry.value_len,
     importance_score |-> entry.importance_score]

\* the stable sort of extract_entries, highest importance first
RECURSIVE SortByImportance(_)
SortByImportance(s) ==
    IF s = <<>> THEN <<>>
    ELSE LET rest == SortByImportance(Take(s, Len(s) - 1))
             e == s[Len(s)]
             before == Cardinality({i \in 1..Len(rest) :
                                       rest[i].importance_score >= e.importance_score})
         IN  InsertAt(rest, before, e)

extract_entries(pats, entries) ==
    LET sized == SelectSeq(entries, LAMBDA e : ~(e.value_len < min_value_size
                                                 \/ e.value_len > max_value_size))
    IN  SortByImportance([i \in 1..Len(sized) |-> ExtractedCacheEntry(pats, sized[i])])

filter_preserved_entries(entries, min_importance, preserve_system, preserve_code) ==
    SelectSeq(entries, LAMBDA entry :
        IF entry.importance_score < min_importance THEN FALSE
        ELSE CASE entry.entry_type = "SystemPrompt" /\ preserve_system -> TRUE
               [] entry.entry_type = "CodeBlock" /\ preserve_code -> TRUE
               [] entry.entry_type = "ImportantConcept" -> TRUE
               [] entry.entry_type \in {"AttentionKey", "AttentionValue"} -> TRUE
               [] OTHER -> entry.importance_score * 10 >= min_importance * 12)

\* Display for CacheEntryType, the key_type column of a snapshot entry
to_string(entry_type) ==
    CASE entry_type = "AttentionKey" -> "attention_key"
      [] entry_type = "AttentionValue" -> "attention_value"
      [] entry_type = "FFNKey" -> "ffn_key"
      [] entry_type = "FFNValue" -> "ffn_value"
      [] entry_type = "SystemPrompt" -> "system_prompt"
      [] entry_type = "CodeBlock" -> "code_block"
      [] entry_type = "ImportantConcept" -> "important_concept"
      [] entry_type = "Question" -> "question"
      [] entry_type = "NumericData" -> "numeric_data"

\* the statements of create_kv_snapshot in order: 1 is the snapshot row, 2..n+1
\* the entry rows, n+2 the metadata upsert, n+3 the commit; fail = 0 is no failure
SnapshotSteps(entries) == Len(entries) + 3

\* the rowid SQLite gives the next kv_snapshots row
last_insert_rowid(snaps) ==
    IF snaps = <<>> THEN 1
    ELSE 1 + (CHOOSE m \in {snaps[i].id : i \in 1..Len(snaps)} :
                  \A i \in 1..Len(snaps) : snaps[i].id <= m)

\* create_snapshot and create_kv_snapshot: blake3 of bincode::serialize of the
\* entries converted to the database format, which carry last_accessed: Utc::now();
\* the hash stands for the bytes it is computed from
kv_state_hash(entries) ==
    [i \in 1..Len(entries) |->
        [key_hash |-> entries[i].key_hash, key_data |-> entries[i].key_data,
         value_len |-> entries[i].value_len,
         key_type |-> to_string(entries[i].entry_type),
         importance_score |-> entries[i].importance_score,
         last_accessed |-> kv_clock]]

\* what the statements before the failing one have written inside the transaction
SnapshotWrites(snaps, ents, meta, msgs, session_id, entries, fail) ==
    LET n == Len(entries)
        own == {i \in 1..Len(msgs) : msgs[i].session_id = session_id}
        message_id == IF own = {} THEN 0
                      ELSE CHOOSE m \in {msgs[i].id : i \in own} :
                               \A i \in own : msgs[i].id <= m
        snapshot_id == last_insert_rowid(snaps)
        total_size_bytes == SumSeq([i \in 1..n |-> entries[i].value_len])
        written == IF fail = 0 \/ fail > n + 1 THEN n ELSE Max2(fail - 2, 0)
    IN  [snapshot_id |-> snapshot_id,
         snaps |-> IF fail = 1 THEN snaps
                   ELSE Append(snaps, [id |-> snapshot_id, session_id |-> session_id,
                                       message_id |-> message_id,
                                       kv_state_hash |-> kv_state_hash(entries),
                                       size_bytes |-> total_size_bytes,
                                       created_at |-> kv_clock]),
         ents |-> ents \o [i \in 1..written |->
                              [snapshot_id |-> snapshot_id,
                               key_hash |-> entries[i].key_hash,
                               value_len |-> entries[i].value_len,
                               key_type |-> to_string(entries[i].entry_type),
                               importance_score |-> entries[i].importance_score,
                               last_accessed |-> kv_schema]],
         meta |-> IF fail = 0 \/ fail > n + 2
                  THEN <<[session_id |-> session_id, total_entries |-> n,
                          total_size_bytes |-> total_size_bytes, conversation_count |-> None]>>
                  ELSE meta]

\* a transaction that keeps what it wrote when a statement fails
create_kv_snapshot_NoRollback(snaps, ents, meta, msgs, session_id, entries, fail) ==
    LET tx == SnapshotWrites(snaps, ents, meta, msgs, session_id, entries, fail)
    IN  [ok |-> fail = 0, snapshot_id |-> tx.snapshot_id,
         snaps |-> tx.snaps, ents |-> tx.ents, meta |-> tx.meta]

\* database.create_kv_snapshot: the `?` of a failing statement drops the
\* transaction, which rolls it back; commit() is the last statement
create_kv_snapshot(snaps, ents, meta, msgs, session_id, entries, fail) ==
    LET tx == SnapshotWrites(snaps, ents, meta, msgs, session_id, entries, fail)
    IN  IF fail = 0
        THEN [ok |-> TRUE, snapshot_id |-> tx.snapshot_id,
              snaps |-> tx.snaps, ents |-> tx.ents, meta |-> tx.meta]
        ELSE [ok |-> FALSE, snapshot_id |-> tx.snapshot_id,
              snaps |-> snaps, ents |-> ents, meta |-> meta]

\* should_create_snapshot taking every clear reason under Incremental
should_create_snapshot_AnyReason(reason) ==
    /\ kv_config.enabled
    /\ kv_config.snapshot_strategy \in {"Full", "Incremental", "Adaptive"}

\* KVCacheManager::should_create_snapshot
should_create_snapshot(reason) ==
    IF ~kv_config.enabled THEN FALSE
    ELSE CASE kv_config.snapshot_strategy = "None" -> FALSE
           [] kv_config.snapshot_strategy = "Full" -> TRUE
           [] kv_config.snapshot_strategy = "Incremental" -> reason = "ConversationLimit"
           [] kv_config.snapshot_strategy = "Adaptive" -> TRUE

SessionCacheState(count, size, entry_count, snapshot_id) ==
    [conversation_count |-> count, cache_size_bytes |-> size, entry_count |-> entry_count,
     last_cleared_at |-> None, last_snapshot_id |-> snapshot_id]

\* clear_cache(session_id, current_entries, reason); fail is the failing
\* statement of the snapshot, if one is made
clear_cache(pats, state, snaps, ents, meta, msgs, session_id, current_entries, reason, fail) ==
    LET extracted == extract_entries(pats, current_entries)
        to_preserve == filter_preserved_entries(extracted, min_importance_to_preserve,
                                                preserve_system_prompts, preserve_code_entries)
        snap == IF should_create_snapshot(reason)
                THEN create_kv_snapshot(snaps, ents, meta, msgs, session_id, to_preserve, fail)
                ELSE [ok |-> TRUE, snapshot_id |-> 0, snaps |-> snaps, ents |-> ents,
                      meta |-> meta]
        snapshot_id == IF should_create_snapshot(reason) THEN Some(snap.snapshot_id) ELSE None
    IN  IF ~snap.ok
        THEN [ok |-> FALSE, state |-> state, snaps |-> snap.snaps, ents |-> snap.ents,
              meta |-> snap.meta, to_preserve |-> to_preserve, result |-> None]
        ELSE [ok |-> TRUE,
              state |-> IF state = None THEN None
                        ELSE Some([state[1] EXCEPT !.entry_count = Len(to_preserve),
                                                   !.last_snapshot_id = snapshot_id,
                                                   !.last_cleared_at = Some(kv_clock)]),
              snaps |-> snap.snaps, ents |-> snap.ents, meta |-> snap.meta,
              to_preserve |-> to_preserve,
              result |-> Some([entries_to_keep |-> to_preserve,
                               entries_cleared |-> Len(current_entries) - Len(to_preserve),
                               snapshot_id |-> snapshot_id, clear_reason |-> reason])]

\* the configured number of conversations between clears (16 by default)
clear_after_conversations == 2

\* a comparison that lets the k-th conversation pass
should_clear_by_conversation_Strict(conversation_count) ==
    conversation_count > clear_after_conversations

should_clear_by_conversation(conversation_count) ==
    conversation_count >= clear_after_conversations

\* usage_percent >= memory_threshold_percent, the threshold in tenths
should_clear_by_memory(current_usage_bytes, max_memory_bytes) ==
    IF max_memory_bytes = 0 THEN FALSE
    ELSE current_usage_bytes * 10 >= memory_threshold_percent_num * max_memory_bytes

\* database.update_kv_cache_metadata: INSERT OR REPLACE of the session's row
update_kv_cache_metadata(session_id, state) ==
    <<[session_id |-> session_id, total_entries |-> state.entry_count,
       total_size_bytes |-> state.cache_size_bytes,
       conversation_count |-> Some(state.conversation_count)]>>

\* KVCacheManager.process_conversation; retrieval and metadata name the steps
\* after the clear that return an error
kv_process_conversation(pats, state, snaps, ents, meta, msgs, session_id, current_kv_entries, current_cache_size_bytes, max_cache_size_bytes, fail, retrieval_fails, metadata_fails) ==
    LET current_conversation_count == IF state = None THEN 0 ELSE state[1].conversation_count
        by_conversation == should_clear_by_conversation(current_conversation_count + 1)
        by_memory == should_clear_by_memory(current_cache_size_bytes, max_cache_size_bytes)
        created == IF state = None THEN SessionCacheState(0, 0, 0, None) ELSE state[1]
        counted == [created EXCEPT !.conversation_count = @ + 1,
                                   !.cache_size_bytes = current_cache_size_bytes,
                                   !.entry_count = Len(current_kv_entries)]
        clear_reason == IF by_conversation THEN "ConversationLimit" ELSE "MemoryThreshold"
        unchanged == [ok |-> TRUE, state |-> Some(counted), snaps |-> snaps, ents |-> ents,
                      meta |-> meta, to_preserve |-> <<>>, result |-> None]
    IN  ValueOf(IF by_conversation \/ by_memory
                THEN clear_cache(pats, Some(counted), snaps, ents, meta, msgs, session_id,
                                 current_kv_entries, clear_reason, fail)
                ELSE unchanged,
        LAMBDA c :
            LET cleared == (by_conversation \/ by_memory) /\ c.ok
                after == IF cleared THEN [c.state[1] EXCEPT !.conversation_count = 0,
                                                            !.last_cleared_at = Some(kv_clock)]
                         ELSE c.state[1]
                failed == ~c.ok \/ retrieval_fails \/ metadata_fails
            IN  [ok |-> ~failed,
                 state |-> Some(after),
                 snaps |-> c.snaps, ents |-> c.ents,
                 meta |-> IF failed THEN c.meta
                          ELSE update_kv_cache_metadata(session_id, after),
                 memory_met |-> by_memory,
                 snapshot |-> IF ~(by_conversation \/ by_memory)
                                 \/ ~should_create_snapshot(clear_reason) THEN "none"
                              ELSE IF c.ok THEN "created" ELSE "failed",
                 to_preserve |-> c.to_preserve,
                 should_clear_cache |-> ~failed /\ cleared,
                 clear_result |-> IF ~failed /\ cleared THEN c.result ELSE None,
                 updated_session_state |-> IF failed THEN None ELSE Some(after)])

\* ------------------------------------------------------------------------
\* Calls of the KV-cache manager by one caller
\* ------------------------------------------------------------------------

\* calls in a run that looks at what a clear keeps and writes
MaxClearCalls == 2

\* calls in a run that counts conversations
MaxKvCalls == 4

SystemLow == KVEntry("k1", "attention_key", Some(<<"system", "prompt">>), 64, 500)
AttentionLow == KVEntry("k2", "attention_value", None, 64, 600)
HighSmall == KVEntry("k3", "ffn_key", None, 4, 900)
CodeKey == KVEntry("k4", "ffn_key", Some(<<"import", "key">>), 128, 750)
FfnMid == KVEntry("k5", "ffn_value", None, 128, 800)
FfnHigh == KVEntry("k6", "ffn_value", None, 128, 900)
WhatSystem == KVEntry("k7", "attention_key", Some(<<"what", "system">>), 64, 750)
HighLarge == KVEntry("k8", "attention_key", None, 20000, 950)

KvInputs ==
    { <<>>,
      <<FfnHigh, CodeKey>>,
      <<AttentionLow, FfnMid, FfnHigh>>,
      <<SystemLow, HighSmall, WhatSystem, HighLarge>> }

\* current and maximum cache size: below the threshold, and at it
KvSizes == { <<50, 100>>, <<60, 100>> }

PatternOrders ==
    { DefaultPatternOrder,
      <<"Question", "ImportantConcept", "CodeBlock", "SystemPrompt", "NumericData">>,
      <<"NumericData", "ImportantConcept", "Question", "SystemPrompt", "CodeBlock">> }

\* the newest call keeps its arguments and result, the older ones their outcome
Outcome(call) ==
    [op |-> call.op, ok |-> call.ok, memory_met |-> call.memory_met,
     should_clear_cache |-> call.should_clear_cache, clear_reason |-> call.clear_reason]

LogCall(call) == Append([i \in 1..Len(kv_calls) |-> Outcome(kv_calls[i])], call)

UnchangedOutsideCache ==
    UNCHANGED <<sessions, messages, summaries, embeddings, tier1_cache, tier2_cache,
                orchestrator, req, pc, bgpc, embpc, ctx, upstream, full_response, sse,
                existing, stored, embed_ids, retrieval_fault, events, calls, b_in, b_out>>

\* manager.process_conversation(session_id, messages, entries, size, max)
CacheProcess(entries, sizes, fail, late) ==
    /\ fail # 0 => should_clear_by_conversation(
                       (IF session_state = None THEN 0
                        ELSE session_state[1].conversation_count) + 1)
    /\ \E p \in {kv_process_conversation(patterns, session_state, kv_snapshots,
                    kv_cache_entries, kv_cache_metadata, messages, Sid, entries,
                    sizes[1], sizes[2], fail, late = "retrieval", late = "metadata")} :
          /\ fail <= SnapshotSteps(p.to_preserve)
          /\ fail # 0 => p.snapshot = "failed"
          /\ session_state' = p.state
          /\ kv_snapshots' = p.snaps
          /\ kv_cache_entries' = p.ents
          /\ kv_cache_metadata' = p.meta
          /\ kv_calls' = LogCall(
                 [op |-> "process_conversation", ok |-> p.ok, memory_met |-> p.memory_met,
                  should_clear_cache |-> p.should_clear_cache,
                  clear_reason |-> IF p.clear_result = None THEN None
                                   ELSE Some(p.clear_result[1].clear_reason),
                  entries |-> entries, snapshot |-> p.snapshot, fail |-> fail,
                  snapshot_id |-> IF p.clear_result = None THEN None
                                  ELSE p.clear_result[1].snapshot_id,
                  to_preserve |-> p.to_preserve,
                  entries_to_keep |-> IF p.clear_result = None THEN None
                                      ELSE Some(p.clear_result[1].entries_to_keep),
                  conversation_count |-> p.state[1].conversation_count])
    /\ UNCHANGED <<patterns, kv_config, kv_clock, kv_schema, scorerVars, queueVars, runtimeVars, streamVars, poolVars, tier3Vars, memVars, txVars>>
    /\ UnchangedOutsideCache

\* manager.manual_clear_cache(session_id, entries)
CacheManualClear(entries) ==
    /\ \E c \in {clear_cache(patterns, session_state, kv_snapshots, kv_cache_entries,
                             kv_cache_metadata, messages, Sid, entries, "Manual", 0)} :
          /\ session_state' = c.state
          /\ kv_snapshots' = c.snaps
          /\ kv_cache_entries' = c.ents
          /\ kv_cache_metadata' = c.meta
          /\ kv_calls' = LogCall(
                 [op |-> "manual_clear_cache", ok |-> TRUE, memory_met |-> FALSE,
                  should_clear_cache |-> TRUE, clear_reason |-> Some("Manual"),
                  entries |-> entries,
                  snapshot |-> IF should_create_snapshot("Manual") THEN "created" ELSE "none",
                  fail |-> 0,
                  snapshot_id |-> c.result[1].snapshot_id,
                  to_preserve |-> c.to_preserve,
                  entries_to_keep |-> Some(c.result[1].entries_to_keep),
                  conversation_count |-> IF c.state = None THEN 0
                                         ELSE c.state[1].conversation_count])
    /\ UNCHANGED <<patterns, kv_config, kv_clock, kv_schema, scorerVars, queueVars, runtimeVars, streamVars, poolVars, tier3Vars, memVars, txVars>>
    /\ UnchangedOutsideCache

InitCache ==
    /\ InitStore(EmptyStore)
    /\ orchestrator = "none"
    /\ InitTurns
    /\ calls = <<>> /\ b_in = NoBuilderInput /\ b_out = None
    /\ patterns \in PatternOrders
    /\ kv_config = DefaultKvConfig
    /\ kv_clock = 0 /\ kv_schema = "NULL"
    /\ session_state = None
    /\ kv_snapshots = <<>>
    /\ kv_cache_entries = <<>>
    /\ kv_cache_metadata = <<>>
    /\ kv_calls = <<>>
    /\ InitScorerIdle
    /\ InitQueueIdle
    /\ InitRuntimeIdle
    /\ InitStreamIdle
    /\ InitPoolIdle
    /\ InitTier3Idle
    /\ InitMemIdle
    /\ InitTxIdle

MaxSnapshotFail == 5

NextCache ==
    \/ \E entries \in KvInputs, sizes \in KvSizes, fail \in 0..MaxSnapshotFail,
          late \in {"none", "retrieval", "metadata"} :
              Len(kv_calls) < MaxClearCalls /\ CacheProcess(entries, sizes, fail, late)
    \/ \E entries \in KvInputs :
              Len(kv_calls) < MaxClearCalls /\ CacheManualClear(entries)

\* calls of the KV-cache manager for one session, with database failures
SpecCache == InitCache /\ [][NextCache]_vars

\* the same caller passing the same cache on every call
NextCount ==
    \/ \E sizes \in KvSizes, fail \in 0..1, late \in {"none", "retrieval", "metadata"} :
              Len(kv_calls) < MaxKvCalls /\ CacheProcess(<<FfnHigh, CodeKey>>, sizes, fail, late)
    \/ Len(kv_calls) < MaxKvCalls /\ CacheManualClear(<<FfnHigh, CodeKey>>)

\* successive process_conversation calls of one session
SpecCount == InitCache /\ [][NextCount]_vars

\* the configurations of the manager: enabled or not, with each strategy
KvConfigs ==
    [enabled : BOOLEAN, snapshot_strategy : {"None", "Full", "Incremental", "Adaptive"}]

\* KVCacheManager::new with any configuration, and an empty database
InitConfig ==
    /\ InitStore(EmptyStore)
    /\ orchestrator = "none"
    /\ InitTurns
    /\ calls = <<>> /\ b_in = NoBuilderInput /\ b_out = None
    /\ patterns = DefaultPatternOrder
    /\ kv_config \in KvConfigs
    /\ kv_clock = 0 /\ kv_schema = "NULL"
    /\ session_state = None
    /\ kv_snapshots = <<>>
    /\ kv_cache_entries = <<>>
    /\ kv_cache_metadata = <<>>
    /\ kv_calls = <<>>
    /\ InitScorerIdle
    /\ InitQueueIdle
    /\ InitRuntimeIdle
    /\ InitStreamIdle
    /\ InitPoolIdle
    /\ InitTier3Idle
    /\ InitMemIdle
    /\ InitTxIdle

NextConfig ==
    \/ \E entries \in {<<>>, <<FfnHigh, CodeKey>>}, sizes \in KvSizes \cup {<<50, 0>>},
          late \in {"none", "retrieval"} :
              Len(kv_calls) < MaxClearCalls /\ CacheProcess(entries, sizes, 0, late)
    \/ \E entries \in {<<>>, <<FfnHigh, CodeKey>>} :
              Len(kv_calls) < MaxClearCalls /\ CacheManualClear(entries)

\* calls of a KV-cache manager under each configuration
SpecConfig == InitConfig /\ [][NextConfig]_vars

\* ------------------------------------------------------------------------
\* Snapshots read back, pruned and cleaned up
\* (cache_manager.rs restore_from_snapshot, perform_maintenance; memory_db/mod.rs)
\* ------------------------------------------------------------------------

\* what a kv_cache_entries row can hold in last_accessed, a column the INSERT
\* of create_kv_snapshot leaves to its default: nothing, SQLite's
\* CURRENT_TIMESTAMP text, or an RFC 3339 text
LastAccessedDefaults == {"NULL", "CURRENT_TIMESTAMP", "rfc3339"}

\* database.get_kv_snapshot_entries: row.get::<String>(8) and
\* parse_from_rfc3339 on every row of the snapshot
get_kv_snapshot_entries(ents, snapshot_id) ==
    LET rows == SelectSeq(ents, LAMBDA r : r.snapshot_id = snapshot_id)
    IN  [ok |-> \A i \in 1..Len(rows) : rows[i].last_accessed = "rfc3339",
         entries |-> rows]

\* KVCacheManager::restore_from_snapshot
restore_from_snapshot(state, ents, snapshot_id) ==
    LET got == get_kv_snapshot_entries(ents, snapshot_id)
    IN  IF ~got.ok THEN [ok |-> FALSE, state |-> state, entries |-> None]
        ELSE [ok |-> TRUE,
              state |-> IF state = None THEN None
                        ELSE Some([state[1] EXCEPT !.entry_count = Len(got.entries),
                                                   !.last_snapshot_id = Some(snapshot_id)]),
              entries |-> Some(got.entries)]

\* kv_cache_entries rows that remain when the snapshots ids are deleted on a
\* connection that enforces foreign keys: a snapshot owns its entries
kv_cache_entries_cascade(ents, ids) == SelectSeq(ents, LAMBDA r : r.snapshot_id \notin ids)

\* the snapshots of the session that are at least as new as row r
AtLeastAsNew(snaps, r) ==
    {i \in 1..Len(snaps) : snaps[i].session_id = r.session_id
                           /\ snaps[i].created_at >= r.created_at}

\* database.prune_old_kv_snapshots(keep_max)
prune_old_kv_snapshots(snaps, ents, keep_max, fk) ==
    LET ids == {snaps[i].id : i \in {j \in 1..Len(snaps) :
                    Cardinality(AtLeastAsNew(snaps, snaps[j])) > keep_max}}
    IN  [snaps |-> SelectSeq(snaps, LAMBDA r : r.id \notin ids),
         ents |-> IF fk THEN kv_cache_entries_cascade(ents, ids) ELSE ents,
         deleted |-> Cardinality(ids)]

\* database.cleanup_session_snapshots(session_id)
cleanup_session_snapshots(snaps, ents, meta, session_id, fk) ==
    LET ids == {snaps[i].id : i \in {j \in 1..Len(snaps) : snaps[j].session_id = session_id}}
    IN  [snaps |-> SelectSeq(snaps, LAMBDA r : r.session_id # session_id),
         ents |-> IF fk THEN kv_cache_entries_cascade(ents, ids) ELSE ents,
         meta |-> SelectSeq(meta, LAMBDA r : r.session_id # session_id)]

\* chrono::Duration::hours(24), in seconds
Day == 86400

\* SnapshotStrategy::Incremental { max_snapshots } of KVCacheConfig::default
max_snapshots == 4

\* KVCacheManager::perform_maintenance for a manager that knows the session
perform_maintenance(state, snaps, ents, meta, session_id, fk) ==
    LET cutoff == kv_clock - Day
        clean == state # None /\ (\/ state[1].last_cleared_at = None
                                  \/ state[1].last_cleared_at[1] < cutoff)
        c == IF clean THEN cleanup_session_snapshots(snaps, ents, meta, session_id, fk)
             ELSE [snaps |-> snaps, ents |-> ents, meta |-> meta]
        p == IF kv_config.snapshot_strategy = "Incremental"
             THEN prune_old_kv_snapshots(c.snaps, c.ents, max_snapshots, fk)
             ELSE [snaps |-> c.snaps, ents |-> c.ents, deleted |-> 0]
    IN  [state |-> IF clean THEN None ELSE state,
         snaps |-> p.snaps, ents |-> p.ents, meta |-> c.meta,
         sessions_cleaned |-> IF clean THEN 1 ELSE 0, snapshots_pruned |-> p.deleted]

\* time passes: a second, or a day
Tick(d) ==
    /\ kv_clock' = kv_clock + d
    /\ UNCHANGED <<patterns, session_state, kv_snapshots, kv_cache_entries, kv_cache_metadata,
                   kv_calls, kv_config, kv_schema>>
    /\ UNCHANGED <<scorerVars, queueVars, runtimeVars, streamVars, poolVars, tier3Vars, memVars, txVars>>
    /\ UnchangedOutsideCache

\* an entry of the call log for an operation that is not a clear
OtherCall(op, ok, fields) ==
    [op |-> op, ok |-> ok, memory_met |-> FALSE, should_clear_cache |-> FALSE,
     clear_reason |-> None, result |-> fields]

\* manager.restore_from_snapshot(session_id, snapshot_id)
Restore(snapshot_id) ==
    /\ \E r \in {restore_from_snapshot(session_state, kv_cache_entries, snapshot_id)} :
          /\ session_state' = r.state
          /\ kv_calls' = LogCall(OtherCall("restore_from_snapshot", r.ok,
                                           [snapshot_id |-> snapshot_id,
                                            entries |-> r.entries]))
    /\ UNCHANGED <<patterns, kv_snapshots, kv_cache_entries, kv_cache_metadata,
                   kv_config, kv_clock, kv_schema>>
    /\ UNCHANGED <<scorerVars, queueVars, runtimeVars, streamVars, poolVars, tier3Vars, memVars, txVars>>
    /\ UnchangedOutsideCache

\* database.prune_old_kv_snapshots(keep_max) on a pooled connection
PruneCall(keep_max) ==
    /\ \E fk \in BOOLEAN :
          \E p \in {prune_old_kv_snapshots(kv_snapshots, kv_cache_entries, keep_max, fk)} :
              /\ kv_snapshots' = p.snaps
              /\ kv_cache_entries' = p.ents
              /\ kv_calls' = LogCall(OtherCall("prune_old_kv_snapshots", TRUE,
                                               [keep_max |-> keep_max,
                                                deleted |-> p.deleted]))
    /\ UNCHANGED <<patterns, session_state, kv_cache_metadata, kv_config, kv_clock, kv_schema>>
    /\ UNCHANGED <<scorerVars, queueVars, runtimeVars, streamVars, poolVars, tier3Vars, memVars, txVars>>
    /\ UnchangedOutsideCache

\* manager.perform_maintenance()
Maintenance ==
    /\ \E fk \in BOOLEAN :
          \E m \in {perform_maintenance(session_state, kv_snapshots, kv_cache_entries,
                                        kv_cache_metadata, Sid, fk)} :
              /\ session_state' = m.state
              /\ kv_snapshots' = m.snaps
              /\ kv_cache_entries' = m.ents
              /\ kv_cache_metadata' = m.meta
              /\ kv_calls' = LogCall(OtherCall("perform_maintenance", TRUE,
                                               [sessions_cleaned |-> m.sessions_cleaned,
                                                snapshots_pruned |-> m.snapshots_pruned]))
    /\ UNCHANGED <<patterns, kv_config, kv_clock, kv_schema>>
    /\ UNCHANGED <<scorerVars, queueVars, runtimeVars, streamVars, poolVars, tier3Vars, memVars, txVars>>
    /\ UnchangedOutsideCache

\* an enabled manager with the given strategies over an empty database whose
\* kv_cache_entries.last_accessed has one of the given defaults
InitManager(strategies, defaults) ==
    /\ InitStore(EmptyStore)
    /\ orchestrator = "none"
    /\ InitTurns
    /\ calls = <<>> /\ b_in = NoBuilderInput /\ b_out = None
    /\ patterns = DefaultPatternOrder
    /\ \E st \in strategies : kv_config = [enabled |-> TRUE, snapshot_strategy |-> st]
    /\ kv_clock = 0
    /\ kv_schema \in defaults
    /\ session_state = None
    /\ kv_snapshots = <<>>
    /\ kv_cache_entries = <<>>
    /\ kv_cache_metadata = <<>>
    /\ kv_calls = <<>>
    /\ InitScorerIdle
    /\ InitQueueIdle
    /\ InitRuntimeIdle
    /\ InitStreamIdle
    /\ InitPoolIdle
    /\ InitTier3Idle
    /\ InitMemIdle
    /\ InitTxIdle

\* snapshot ids a caller asks to restore
MaxSnapshotId == 2

InitRestore == InitManager({"Full", "Incremental"}, LastAccessedDefaults)

NextRestore ==
    \/ \E entries \in {<<>>, <<FfnHigh, CodeKey>>, <<AttentionLow, FfnMid, FfnHigh>>},
          sizes \in KvSizes, late \in {"none", "retrieval"} :
              Len(kv_calls) < MaxClearCalls /\ CacheProcess(entries, sizes, 0, late)
    \/ \E entries \in {<<>>, <<FfnHigh, CodeKey>>} :
              Len(kv_calls) < MaxClearCalls /\ CacheManualClear(entries)
    \/ \E id \in 1..MaxSnapshotId : Len(kv_calls) < MaxClearCalls /\ Restore(id)

\* clears that take snapshots, and restores from them
SpecRestore == InitRestore /\ [][NextRestore]_vars

\* calls in a run with maintenance
MaxMaintCalls == 3

\* the seconds and the days that pass in a run with maintenance
MaxSeconds == 1
MaxDays == 1

\* keep_max of a direct prune
MaxKeep == 2

InitMaint == InitManager({"Full", "Incremental"}, {"NULL"})

NextMaint ==
    \/ \E entries \in {<<>>, <<FfnHigh, CodeKey>>}, sizes \in KvSizes :
              Len(kv_calls) < MaxMaintCalls /\ CacheProcess(entries, sizes, 0, "none")
    \/ Len(kv_calls) < MaxMaintCalls /\ CacheManualClear(<<FfnHigh, CodeKey>>)
    \/ \E d \in {1, Day} :
          /\ (kv_clock + d) % Day <= MaxSeconds
          /\ (kv_clock + d) \div Day <= MaxDays
          /\ Tick(d)
    \/ \E keep_max \in 1..MaxKeep : Len(kv_calls) < MaxMaintCalls /\ PruneCall(keep_max)
    \/ Len(kv_calls) < MaxMaintCalls /\ Maintenance

\* clears that take snapshots, pruning and maintenance as time passes
SpecMaint == InitMaint /\ [][NextMaint]_vars

\* ------------------------------------------------------------------------

\* Properties of the streaming pipeline
\* ------------------------------------------------------------------------

\* the turn has sent a token to the client
Streamed(t) == \E i \in DOMAIN sse[t] : sse[t][i] = "tok"

\* the pipeline event e of turn t has happened
Happened(t, e) == \E i \in DOMAIN events[t] : events[t][i] = e

\* the session holds the reply of the Upstreams at the index the turn uses
ReplyStored(t) ==
    \E i \in DOMAIN messages :
        /\ messages[i].session_id = Sid
        /\ messages[i].role = "assistant"
        /\ messages[i].message_index = Len(req[t])
        /\ messages[i].content = Raw(<<"hi">>)

\* the database was created empty (no action of Spec removes a session)
StartedEmpty == "s0" \notin DOMAIN sessions

RECURSIVE IsSubseq(_, _)
\* a is b with some elements removed
IsSubseq(a, b) ==
    IF a = <<>> THEN TRUE
    ELSE IF b = <<>> THEN FALSE
    ELSE IF Head(a) = Head(b) THEN IsSubseq(Tail(a), Tail(b))
    ELSE IsSubseq(a, Tail(b))

\* C1, as the specification states it: in every session the stored
\* message_index values are exactly 0..N-1, each once, N the number of rows.
C1_IndexesContiguous ==
    \A sid \in AllSessions :
        LET rows == SessionRowSet(messages, sid)
        IN  /\ {messages[i].message_index : i \in rows} = 0..(Cardinality(rows) - 1)
            /\ \A i, j \in rows :
                  messages[i].message_index = messages[j].message_index => i = j

\* C2: a first turn [user "Hello"] on an empty store with a non-empty reply
\* leaves, whatever the interleaving of the detached user persist with the
\* orchestrator's tier-3 store, exactly the user message at index 0 and the
\* assistant message at index 1.
C2_FirstTurnStore ==
    ( /\ StartedEmpty
      /\ orchestrator = "enabled"
      /\ req[1] = <<U(<<"Hello">>)>>
      /\ pc[1] = "done" /\ TurnSettled(1) /\ Streamed(1)
      /\ \A t \in Turns : t > 1 => pc[t] = "idle" )
    => LET rows == get_session_messages(messages, Sid, Tier3ScanLimit, 0)
       IN  /\ Len(rows) = 2
           /\ rows[1].role = "user" /\ rows[1].message_index = 0
           /\ rows[1].content = Raw(<<"Hello">>)
           /\ rows[2].role = "assistant" /\ rows[2].message_index = 1
           /\ rows[2].content = Raw(<<"hi">>)

W_C2 ==
    /\ StartedEmpty /\ orchestrator = "enabled" /\ req[1] = <<U(<<"Hello">>)>>
    /\ pc[1] = "done" /\ TurnSettled(1) /\ Streamed(1)
    /\ get_session_message_count(messages, Sid) = 2

\* C3: an assistant row is inserted only by a turn whose loop over the
\* upstream has ended (None or the error break), and not in a step that
\* forwards an item to the client.
C3_AssistantAfterStreamEnd ==
    [][ LET n(msgs) == Cardinality({i \in SessionRowSet(msgs, Sid) : msgs[i].role = "assistant"})
        IN  n(messages') > n(messages)
            => \E t \in Turns :
                  /\ pc[t] = "persist" /\ pc'[t] = "done"
                  /\ upstream[t] = <<>>
                  /\ sse'[t] = sse[t]
                  /\ messages'[Len(messages')].message_index = Len(req[t]) ]_vars

W_C3 ==
    \E t \in Turns :
        /\ pc[t] = "done" /\ sse[t] = <<"tok", "done">>
        /\ Happened(t, "assistant_persist") /\ ReplyStored(t)

\* C4: the events of a turn occur in the order user-persist started, context
\* build, stream start, assistant persist, embedding persist; the embedding
\* task exists only once the assistant message has been persisted.
C4_EventOrder ==
    LET Order == <<"user_persist_started", "context_build", "stream_start",
                   "assistant_persist", "embed_persist">>
        rank(e) == CHOOSE k \in DOMAIN Order : Order[k] = e
    IN  \A t \in Turns :
           /\ \A i, j \in DOMAIN events[t] :
                 i < j => rank(events[t][i]) < rank(events[t][j])
           /\ Happened(t, "embed_persist") => Happened(t, "assistant_persist")
           /\ embpc[t] # "none" => Happened(t, "assistant_persist")

W_C4 ==
    \E t \in Turns :
        events[t] = <<"user_persist_started", "context_build", "stream_start",
                      "assistant_persist", "embed_persist">>

C6_NoMessageLostOnDrop ==
    \A t \in Turns :
        (pc[t] = "cancelled" /\ TurnSettled(t) /\ Streamed(t)) => ReplyStored(t)

\* ------------------------------------------------------------------------
\* Properties of the orchestrator calls
\* ------------------------------------------------------------------------

IsBridge(m) ==
    /\ m.role = "system"
    /\ \/ IsTransitionPrefix(m)
       \/ \E n \in 1..(MaxSummaries + 1) : m = ContinuingBridge(n)

\* C9, as the specification states it: the sum of len(content)/4 over the
\* returned context never exceeds max_total_tokens.
C9_TokenBudget ==
    b_out # None =>
        SumSeq([i \in 1..Len(b_out[1]) |-> Tokens(b_out[1][i].content)]) <= max_total_tokens

\* C10, as the specification states it: in the returned context every system
\* bridge or summary message comes before every other message.
C10_BridgesFirst ==
    b_out # None =>
        \A i, j \in 1..Len(b_out[1]) :
            (i < j /\ IsBridge(b_out[1][j])) => IsBridge(b_out[1][i])

\* a message the builder injected: a detail from Tier 3 or a cross-session message
IsInjected(m) == m.content.pre \in {"[Earlier detail: ", "[From earlier: "}

\* the live messages of a context: neither bridge nor injected
LiveOf(context) == SelectSeq(context, LAMBDA m : ~IsBridge(m) /\ ~IsInjected(m))

\* C11, as the specification states it: the live messages of the returned
\* context are a subsequence of the input messages, in their order, none of
\* them twice.
C11_LiveSubsequence ==
    b_out # None => IsSubseq(LiveOf(b_out[1]), b_in.current_messages)

\* C12, as the specification states it: the summary messages of the returned
\* context count, at len(content)/4 each, at most max_total_tokens times
\* max_summary_ratio tokens.
C12_SummaryRatio ==
    b_out # None =>
        SumSeq([i \in 1..Len(b_out[1]) |->
                   IF IsSummaryMsg(b_out[1][i]) THEN Tokens(b_out[1][i].content) ELSE 0])
            <= max_summary_tokens

\* ------------------------------------------------------------------------
\* Engagement of cache keys (cache_management/cache_scorer.rs)
\* ------------------------------------------------------------------------

\* CacheScoringConfig::default, in ten-thousandths; the decay in hundredths
min_engagement == 1000
max_engagement == 10000
engagement_decay_num == 95
InitialEngagement == 3000
RetrievedIncrease == 1500
StoredIncrease == 500

\* an update that adds without the upper clip
update_engagement_NoClip(engagement, key_hash, was_retrieved) ==
    LET engagement_increase == IF was_retrieved THEN RetrievedIncrease ELSE StoredIncrease
        current == IF key_hash \in DOMAIN engagement THEN engagement[key_hash]
                   ELSE InitialEngagement
    IN  [k \in DOMAIN engagement \cup {key_hash} |->
            IF k = key_hash THEN Max2(current + engagement_increase, min_engagement)
            ELSE Max2((engagement[k] * engagement_decay_num) \div 100, min_engagement)]

\* update_engagement followed by decay_other_keys
update_engagement(engagement, key_hash, was_retrieved) ==
    LET engagement_increase == IF was_retrieved THEN RetrievedIncrease ELSE StoredIncrease
        current == IF key_hash \in DOMAIN engagement THEN engagement[key_hash]
                   ELSE InitialEngagement
    IN  [k \in DOMAIN engagement \cup {key_hash} |->
            IF k = key_hash
            THEN Max2(Min2(current + engagement_increase, max_engagement), min_engagement)
            ELSE Max2((engagement[k] * engagement_decay_num) \div 100, min_engagement)]

MaxUpdates == 6

EngagementKeys == {"k1", "k2", "k3"}

\* decay_other_keys applied n times to one value
RECURSIVE Decayed(_, _)
Decayed(v, n) ==
    IF n = 0 THEN v
    ELSE Decayed(Max2((v * engagement_decay_num) \div 100, min_engagement), n - 1)

DecaySteps == 24

\* a key stored once and not touched during the updates of other keys since
NearFloor == Decayed(InitialEngagement + StoredIncrease, DecaySteps)

\* scorer.update_engagement(key_hash, was_retrieved)
UpdateEngagement(key_hash, was_retrieved) ==
    /\ scorer_updates < MaxUpdates
    /\ key_engagement' = update_engagement(key_engagement, key_hash, was_retrieved)
    /\ scorer_updates' = scorer_updates + 1
    /\ UNCHANGED <<cacheVars, queueVars, runtimeVars, streamVars, poolVars, tier3Vars, memVars, txVars>>
    /\ UnchangedOutsideCache

InitScorer ==
    /\ InitStore(EmptyStore)
    /\ orchestrator = "none"
    /\ InitTurns
    /\ calls = <<>> /\ b_in = NoBuilderInput /\ b_out = None
    /\ InitCacheIdle
    /\ InitQueueIdle
    /\ InitRuntimeIdle
    /\ InitStreamIdle
    /\ InitPoolIdle
    /\ InitTier3Idle
    /\ InitMemIdle
    /\ InitTxIdle
    /\ key_engagement \in {<<>>, [k \in {"k3"} |-> NearFloor]}
    /\ scorer_updates = 0

NextScorer ==
    \E key_hash \in EngagementKeys, was_retrieved \in BOOLEAN :
        UpdateEngagement(key_hash, was_retrieved)

\* engagement updates on retrieval and on store, for any keys
SpecScorer == InitScorer /\ [][NextScorer]_vars

\* ------------------------------------------------------------------------
\* Pending-message queues (shared_state.rs)
\* ------------------------------------------------------------------------

\* ArrayQueue::new(1000)
QueueCapacity == 1000

PendingMessage(p, n) == [from |-> p, n |-> n]

\* a push that does not look at the capacity
push_Unbounded(queue, value) == [ok |-> TRUE, queue |-> Append(queue, value)]

\* ArrayQueue::push: Err(value) when the queue is full
push(queue, value) ==
    IF Len(queue) >= QueueCapacity THEN [ok |-> FALSE, queue |-> queue]
    ELSE [ok |-> TRUE, queue |-> Append(queue, value)]

MaxPushes == 2

\* messages short of a full queue when the producers start
Headroom == 2

UnchangedOutsideQueue ==
    /\ UNCHANGED <<cacheVars, scorerVars, runtimeVars, streamVars, poolVars, tier3Vars, memVars, txVars>>
    /\ UnchangedOutsideCache

\* queue_message: message_queues.entry(session_id).or_insert_with(...); the
\* returned RefMut holds the shard's write lock until the function returns
QueueEntry(p) ==
    /\ qpc[p] = "idle"
    /\ queued[p] < MaxPushes
    /\ shard_lock = "free"
    /\ shard_lock' = p
    /\ message_queues' = IF message_queues = None THEN Some(<<>>) ELSE message_queues
    /\ qpc' = [qpc EXCEPT ![p] = "push"]
    /\ UNCHANGED <<queued, queue_result, drained>>
    /\ UnchangedOutsideQueue

\* queue_message: queue.push(PendingMessage {..}).is_ok(), then the return
QueuePush(p) ==
    /\ qpc[p] = "push"
    /\ LET r == push(message_queues[1], PendingMessage(p, queued[p] + 1))
       IN  /\ message_queues' = Some(r.queue)
           /\ queue_result' = [queue_result EXCEPT ![p] =
                  Some([ok |-> r.ok, before |-> Len(message_queues[1]),
                        after |-> Len(r.queue)])]
    /\ queued' = [queued EXCEPT ![p] = @ + 1]
    /\ shard_lock' = "free"
    /\ qpc' = [qpc EXCEPT ![p] = "idle"]
    /\ UNCHANGED drained
    /\ UnchangedOutsideQueue

\* process_queued_messages: message_queues.get(session_id), a read guard
\* held while the queue is drained
DrainGet ==
    /\ qpc["consumer"] = "idle"
    /\ shard_lock = "free"
    /\ message_queues # None
    /\ shard_lock' = "consumer"
    /\ qpc' = [qpc EXCEPT !["consumer"] = "drain"]
    /\ drained' = 0
    /\ UNCHANGED <<message_queues, queued, queue_result>>
    /\ UnchangedOutsideQueue

\* process_queued_messages: one turn of `while let Some(msg) = queue.pop()`
DrainPop ==
    /\ qpc["consumer"] = "drain"
    /\ IF message_queues[1] # <<>>
       THEN /\ drained' = drained + 1
            /\ message_queues' = Some(Tail(message_queues[1]))
            /\ UNCHANGED <<shard_lock, qpc>>
       ELSE /\ shard_lock' = "free"
            /\ qpc' = [qpc EXCEPT !["consumer"] = "idle"]
            /\ UNCHANGED <<message_queues, drained>>
    /\ UNCHANGED <<queued, queue_result>>
    /\ UnchangedOutsideQueue

\* no queue yet, or a queue earlier producers have filled up to the headroom
InitQueue ==
    /\ InitStore(EmptyStore)
    /\ orchestrator = "none"
    /\ InitTurns
    /\ calls = <<>> /\ b_in = NoBuilderInput /\ b_out = None
    /\ InitCacheIdle
    /\ InitScorerIdle
    /\ InitRuntimeIdle
    /\ InitStreamIdle
    /\ InitPoolIdle
    /\ InitTier3Idle
    /\ InitMemIdle
    /\ InitTxIdle
    /\ message_queues \in
          {None, Some([i \in 1..(QueueCapacity - Headroom) |-> PendingMessage("p0", i)])}
    /\ shard_lock = "free"
    /\ qpc = [t \in QueueThreads |-> "idle"]
    /\ queued = [p \in Producers |-> 0]
    /\ queue_result = [p \in Producers |-> None]
    /\ drained = 0

NextQueue ==
    \/ \E p \in Producers : QueueEntry(p)
    \/ \E p \in Producers : QueuePush(p)
    \/ DrainGet
    \/ DrainPop

\* two producers and one consumer of one session's queue
SpecQueue == InitQueue /\ [][NextQueue]_vars

\* ------------------------------------------------------------------------
\* Runtime manager (model_runtime/runtime_manager.rs, gguf_runtime.rs)
\* ------------------------------------------------------------------------

MaxManagerCalls == 2
MaxReads == 2

\* strong count of holder h: the ArcSwap, the Arc shutdown() got from swap(),
\* and one per guard whose debt the swap has paid
Refs(hs, cur, old, gs, h) ==
    (IF cur = h THEN 1 ELSE 0) + (IF old = Some(h) THEN 1 ELSE 0)
        + Cardinality({r \in Readers : gs[r] = Some(h)})

\* Drop for GGUFRuntime and GGUFRuntime::shutdown: kill() and wait() the child
Kill(ch, runtime) ==
    IF runtime = NoRuntime THEN ch ELSE [ch EXCEPT ![runtime] = "killed"]

\* the holders that lost their last reference are dropped with their runtime
Unreferenced(hs, cur, old, gs) ==
    {h \in 1..Len(hs) : ~hs[h].dropped /\ Refs(hs, cur, old, gs, h) = 0}

DropHolders(hs, cur, old, gs) ==
    [h \in 1..Len(hs) |->
        IF h \in Unreferenced(hs, cur, old, gs) THEN [hs[h] EXCEPT !.dropped = TRUE]
        ELSE hs[h]]

DropRuntimes(hs, cur, old, gs, ch) ==
    [c \in 1..Len(ch) |->
        IF \E h \in Unreferenced(hs, cur, old, gs) : hs[h].runtime = c THEN "killed"
        ELSE ch[c]]

UnchangedOutsideRuntime ==
    /\ UNCHANGED <<cacheVars, scorerVars, queueVars, streamVars, poolVars, tier3Vars, memVars, txVars>>
    /\ UnchangedOutsideCache

\* shutdown(), called directly or by hot_swap: holder.swap(empty holder)
ShutdownSwap(op) ==
    /\ mpc = "idle"
    /\ Len(mgr_calls) < MaxManagerCalls
    /\ mgr_calls' = Append(mgr_calls, [op |-> op, result |-> "running",
                                       before |-> holders[holder].runtime])
    /\ holders' = Append(holders, RuntimeHolder(NoRuntime))
    /\ holder' = Len(holders) + 1
    /\ old_holder' = Some(holder)
    /\ mpc' = "unwrap"
    /\ UNCHANGED <<child, guards, observed, shutdown_log>>
    /\ UnchangedOutsideRuntime

\* shutdown(): Arc::try_unwrap(old_holder), runtime.shutdown() if it is the
\* only reference, and the return
ShutdownUnwrap ==
    /\ mpc = "unwrap"
    /\ LET old == old_holder[1]
           runtime == holders[old].runtime
           sole == Refs(holders, holder, old_holder, guards, old) = 1
           killed == IF sole THEN Kill(child, runtime) ELSE child
       IN  /\ holders' = DropHolders(holders, holder, None, guards)
           /\ child' = killed
           /\ shutdown_log' = Append(shutdown_log,
                  [runtime |-> runtime,
                   child |-> IF runtime = NoRuntime THEN "none" ELSE killed[runtime]])
    /\ old_holder' = None
    /\ mpc' = IF mgr_calls[Len(mgr_calls)].op = "hot_swap" THEN "initialize" ELSE "idle"
    /\ mgr_calls' = IF mgr_calls[Len(mgr_calls)].op = "hot_swap" THEN mgr_calls
                    ELSE [mgr_calls EXCEPT ![Len(mgr_calls)].result = "ok"]
    /\ UNCHANGED <<holder, guards, observed>>
    /\ UnchangedOutsideRuntime

\* initialize(): its own shutdown() of the empty holder, then the new runtime
\* and runtime.initialize(config), which starts the server or fails
InitializeRuntime(started) ==
    /\ mpc = "initialize"
    /\ holder' = Len(holders) + 1
    /\ holders' = DropHolders(Append(holders, RuntimeHolder(NoRuntime)), Len(holders) + 1,
                              None, guards)
    /\ IF started
       THEN /\ child' = Append(child, "running")
            /\ mpc' = "store"
            /\ UNCHANGED mgr_calls
       ELSE /\ mpc' = "idle"
            /\ mgr_calls' = [mgr_calls EXCEPT ![Len(mgr_calls)].result = "error"]
            /\ UNCHANGED child
    /\ UNCHANGED <<guards, observed, old_holder, shutdown_log>>
    /\ UnchangedOutsideRuntime

\* initialize(): self.holder.store(new_holder)
StoreRuntime ==
    /\ mpc = "store"
    /\ holder' = Len(holders) + 1
    /\ holders' = DropHolders(Append(holders, RuntimeHolder(Len(child))), Len(holders) + 1,
                              None, guards)
    /\ mpc' = "idle"
    /\ mgr_calls' = [mgr_calls EXCEPT ![Len(mgr_calls)].result = "ok"]
    /\ UNCHANGED <<child, guards, observed, old_holder, shutdown_log>>
    /\ UnchangedOutsideRuntime

\* generate, health_check, is_ready: self.holder.load() and the match on
\* holder.runtime
ReaderLoad(r) ==
    /\ guards[r] = None
    /\ Len(observed[r]) < MaxReads
    /\ guards' = [guards EXCEPT ![r] = Some(holder)]
    /\ observed' = [observed EXCEPT ![r] = Append(@, holders[holder].runtime)]
    /\ UNCHANGED <<holders, holder, child, mpc, old_holder, mgr_calls, shutdown_log>>
    /\ UnchangedOutsideRuntime

\* the reader's call returns and its guard is dropped
ReaderDone(r) ==
    /\ guards[r] # None
    /\ guards' = [guards EXCEPT ![r] = None]
    /\ holders' = DropHolders(holders, holder, old_holder, guards')
    /\ child' = DropRuntimes(holders, holder, old_holder, guards', child)
    /\ UNCHANGED <<holder, observed, mpc, old_holder, mgr_calls, shutdown_log>>
    /\ UnchangedOutsideRuntime

\* a manager whose first runtime is initialized and serving
InitRuntime ==
    /\ InitStore(EmptyStore)
    /\ orchestrator = "none"
    /\ InitTurns
    /\ calls = <<>> /\ b_in = NoBuilderInput /\ b_out = None
    /\ InitCacheIdle
    /\ InitScorerIdle
    /\ InitQueueIdle
    /\ InitStreamIdle
    /\ InitPoolIdle
    /\ InitTier3Idle
    /\ InitMemIdle
    /\ InitTxIdle
    /\ holders = <<RuntimeHolder(1)>>
    /\ holder = 1
    /\ child = <<"running">>
    /\ guards = [r \in Readers |-> None]
    /\ observed = [r \in Readers |-> <<>>]
    /\ mpc = "idle"
    /\ old_holder = None
    /\ mgr_calls = <<>>
    /\ shutdown_log = <<>>

NextRuntime ==
    \/ \E op \in {"hot_swap", "shutdown"} : ShutdownSwap(op)
    \/ ShutdownUnwrap
    \/ \E started \in BOOLEAN : InitializeRuntime(started)
    \/ StoreRuntime
    \/ \E r \in Readers : ReaderLoad(r)
    \/ \E r \in Readers : ReaderDone(r)

\* one caller of the manager and two readers of its holder
SpecRuntime == InitRuntime /\ [][NextRuntime]_vars

\* ------------------------------------------------------------------------
\* Token streams (worker_threads/llm_worker.rs, model_runtime/gguf_runtime.rs,
\* api/stream_api.rs)
\* ------------------------------------------------------------------------

MaxLines == 3

\* the lines a server can send: `data: {chunk}`, `data: {chunk with a
\* finish_reason}`, `data: [DONE]`, `data: ` followed by text that is not
\* JSON, `data: data: [DONE]`, a line without the data prefix, an empty line
LineKinds == {"chunk", "final", "done", "text", "nested_done", "comment", "empty"}

RECURSIVE SeqsUpTo(_, _)
SeqsUpTo(kinds, n) ==
    IF n = 0 THEN {<<>>}
    ELSE SeqsUpTo(kinds, n - 1) \cup
         {Append(q, x) : q \in {p \in SeqsUpTo(kinds, n - 1) : Len(p) = n - 1}, x \in kinds}

\* stream_api: sse_line.trim_start_matches("data: ").trim_end() as event data;
\* every leading "data: " is removed
to_event(sse_line) == IF sse_line = "nested_done" THEN "done" ELSE sse_line

\* what stream_response yields for one line, and whether it returns after it
WorkerYield(line) ==
    CASE line \in {"empty", "comment"} -> [items |-> <<>>, return |-> FALSE]
      [] line = "done" -> [items |-> <<"done">>, return |-> TRUE]
      [] line = "final" -> [items |-> <<"final", "done">>, return |-> TRUE]
      [] OTHER -> [items |-> <<line>>, return |-> FALSE]

\* what GGUFRuntime::generate_stream yields for one line, and whether it returns
GgufYield(line) ==
    CASE line \in {"empty", "comment"} -> [items |-> <<>>, return |-> FALSE]
      [] line = "done" -> [items |-> <<>>, return |-> TRUE]
      [] OTHER -> [items |-> <<line>>, return |-> FALSE]

\* the Err arm without its break: the loop goes on after the error event
forward_error_NoBreak(sent) == [events |-> Append(sent, "error"), break |-> FALSE]

\* stream_api, the Err arm of the forwarding loop: one {"error": ...} event,
\* then break
forward_error(sent) == [events |-> Append(sent, "error"), break |-> TRUE]

UnchangedOutsideStream ==
    /\ UNCHANGED <<cacheVars, scorerVars, queueVars, runtimeVars, poolVars, tier3Vars, memVars, txVars>>
    /\ UnchangedOutsideCache

\* stream_response reads the next line; stream_api forwards what it yields
WorkerLine ==
    /\ producer = "llm_worker"
    /\ stream_state = "open"
    /\ byte_stream # <<>>
    /\ LET y == WorkerYield(Head(byte_stream))
       IN  /\ yielded' = yielded \o y.items
           /\ delivered' = delivered \o [i \in 1..Len(y.items) |-> to_event(y.items[i])]
           /\ stream_state' = IF y.return THEN "ended" ELSE "open"
    /\ byte_stream' = Tail(byte_stream)
    /\ UNCHANGED <<producer, stream_end>>
    /\ UnchangedOutsideStream

\* stream_response finds the end of the response: the closing [DONE] after the
\* loop, or the read error, which stream_api turns into an error event
WorkerEnd ==
    /\ producer = "llm_worker"
    /\ stream_state = "open"
    /\ byte_stream = <<>>
    /\ IF stream_end = "eof"
       THEN /\ yielded' = Append(yielded, "done")
            /\ delivered' = Append(delivered, "done")
            /\ stream_state' = "ended"
       ELSE /\ yielded' = Append(yielded, "error")
            /\ delivered' = forward_error(delivered).events
            /\ stream_state' = IF forward_error(delivered).break THEN "failed" ELSE "open"
    /\ UNCHANGED <<producer, byte_stream, stream_end>>
    /\ UnchangedOutsideStream

\* GGUFRuntime::generate_stream reads the next line; its caller gets the items
GgufLine ==
    /\ producer = "gguf"
    /\ stream_state = "open"
    /\ byte_stream # <<>>
    /\ LET y == GgufYield(Head(byte_stream))
       IN  /\ yielded' = yielded \o y.items
           /\ delivered' = delivered \o y.items
           /\ stream_state' = IF y.return THEN "ended" ELSE "open"
    /\ byte_stream' = Tail(byte_stream)
    /\ UNCHANGED <<producer, stream_end>>
    /\ UnchangedOutsideStream

\* GGUFRuntime::generate_stream finds the end of the response
GgufEnd ==
    /\ producer = "gguf"
    /\ stream_state = "open"
    /\ byte_stream = <<>>
    /\ IF stream_end = "eof"
       THEN /\ stream_state' = "ended"
            /\ UNCHANGED <<yielded, delivered>>
       ELSE /\ yielded' = Append(yielded, "error")
            /\ delivered' = Append(delivered, "error")
            /\ stream_state' = "failed"
    /\ UNCHANGED <<producer, byte_stream, stream_end>>
    /\ UnchangedOutsideStream

\* the server has accepted the request and starts to send
InitStream ==
    /\ InitStore(EmptyStore)
    /\ orchestrator = "none"
    /\ InitTurns
    /\ calls = <<>> /\ b_in = NoBuilderInput /\ b_out = None
    /\ InitCacheIdle
    /\ InitScorerIdle
    /\ InitQueueIdle
    /\ InitRuntimeIdle
    /\ InitPoolIdle
    /\ InitTier3Idle
    /\ InitMemIdle
    /\ InitTxIdle
    /\ producer \in {"llm_worker", "gguf"}
    /\ byte_stream \in SeqsUpTo(LineKinds, MaxLines)
    /\ stream_end \in {"eof", "error"}
    /\ yielded = <<>>
    /\ delivered = <<>>
    /\ stream_state = "open"

NextStream ==
    \/ WorkerLine
    \/ WorkerEnd
    \/ GgufLine
    \/ GgufEnd

\* one streamed response of each producer, over every short server response
SpecStream == InitStream /\ [][NextStream]_vars

\* ------------------------------------------------------------------------
\* Session deletion over the connection pool (memory_db/mod.rs,
\* memory_db/conversation_store.rs, memory_db/schema.rs)
\* ------------------------------------------------------------------------

MaxDeletes == 2

\* ids of the messages rows of session sid
MessageIds(msgs, sid) == {msgs[i].id : i \in SessionRowSet(msgs, sid)}

\* kv_snapshots rows that remain after the sessions row sid is deleted on a
\* connection that enforces foreign keys: a session owns its KV snapshots
kv_snapshots_cascade(snaps, sid) == SelectSeq(snaps, LAMBDA r : r.session_id # sid)

\* ConversationStore::delete_session on a pooled connection: DELETE FROM
\* sessions WHERE id = ?1.  The ON DELETE CASCADE clauses of SCHEMA_SQL act
\* only when the connection enforces foreign keys (fk).
delete_session(sess, msgs, sums, dets, embs, snaps, sid, fk) ==
    LET deleted == IF sid \in DOMAIN sess THEN 1 ELSE 0
        cascade == deleted = 1 /\ fk
        gone == MessageIds(msgs, sid)
    IN  [deleted |-> deleted,
         sessions |-> [x \in DOMAIN sess \ {sid} |-> sess[x]],
         messages |-> IF cascade THEN SelectSeq(msgs, LAMBDA r : r.session_id # sid) ELSE msgs,
         summaries |-> IF cascade THEN [sums EXCEPT ![sid] = <<>>] ELSE sums,
         details |-> IF cascade
                     THEN SelectSeq(dets, LAMBDA r : r.session_id # sid /\ r.message_id \notin gone)
                     ELSE dets,
         embeddings |-> IF cascade THEN embs \ gone ELSE embs,
         snaps |-> IF cascade THEN kv_snapshots_cascade(snaps, sid) ELSE snaps]

\* conversations.delete_session(session_id) running on pooled connection c
PoolDelete(c, sid) ==
    /\ Len(deletes) < MaxDeletes
    /\ \E r \in {delete_session(sessions, messages, summaries, details, embeddings,
                                 kv_snapshots, sid, pool_fk[c])} :
          /\ sessions' = r.sessions
          /\ messages' = r.messages
          /\ summaries' = r.summaries
          /\ details' = r.details
          /\ embeddings' = r.embeddings
          /\ kv_snapshots' = r.snaps
          /\ deletes' = Append(deletes, [conn |-> c, session_id |-> sid, deleted |-> r.deleted])
    /\ UNCHANGED <<tier1_cache, tier2_cache, orchestrator, turnVars, calls, b_in, b_out>>
    /\ UNCHANGED <<patterns, session_state, kv_cache_entries, kv_cache_metadata, kv_calls,
                   kv_config, kv_clock, kv_schema>>
    /\ session_meta' = [x \in DOMAIN session_meta \ {sid} |-> session_meta[x]]
    /\ UNCHANGED <<pool_fk, responses, scorerVars, queueVars, runtimeVars, streamVars, tier3Vars, memVars, txVars>>

\* a database with two sessions, each with messages, embeddings, a detail and
\* a KV snapshot, behind a pool built by MemoryDatabase::new: one connection
\* ran PRAGMA foreign_keys = ON, the others have the default of the SQLite
\* library the program is linked with
InitDelete ==
    /\ InitStore(SeededStore)
    /\ orchestrator \in {"none", "enabled"}
    /\ InitTurns
    /\ calls = <<>> /\ b_in = NoBuilderInput /\ b_out = None
    /\ InitScorerIdle
    /\ InitQueueIdle
    /\ InitRuntimeIdle
    /\ InitStreamIdle
    /\ InitTier3Idle
    /\ InitMemIdle
    /\ InitTxIdle
    /\ session_meta = [x \in AllSessions |-> [title |-> None, pinned |-> FALSE]]
    /\ responses = <<>>
    /\ patterns = DefaultPatternOrder
    /\ kv_config = DefaultKvConfig
    /\ kv_clock = 0 /\ kv_schema = "NULL"
    /\ session_state = None
    /\ kv_snapshots = <<[id |-> 1, session_id |-> "s0", message_id |-> 2,
                         kv_state_hash |-> <<>>, size_bytes |-> 100, created_at |-> 0],
                        [id |-> 2, session_id |-> "s1", message_id |-> 4,
                         kv_state_hash |-> <<>>, size_bytes |-> 100, created_at |-> 0]>>
    /\ kv_cache_entries = <<>>
    /\ kv_cache_metadata = <<>>
    /\ kv_calls = <<>>
    /\ \E library_default \in BOOLEAN, first \in Conns :
          pool_fk = [c \in Conns |-> c = first \/ library_default]
    /\ details = <<[session_id |-> "s0", message_id |-> 1], [session_id |-> "s1", message_id |-> 3]>>
    /\ deletes = <<>>

NextDelete ==
    \E c \in Conns, sid \in AllSessions \cup {"s9"} : PoolDelete(c, sid)

\* delete_session calls over the connections of one pool
SpecDelete == InitDelete /\ [][NextDelete]_vars

\* ------------------------------------------------------------------------
\* Conversation endpoints (api/conversation_api.rs)
\* ------------------------------------------------------------------------

MaxRequests == 2

\* ConversationStore::update_session_title
update_session_title(sess, meta, sid, title) ==
    IF sid \in DOMAIN sess
    THEN [ok |-> TRUE, error |-> "",
          sessions |-> [sess EXCEPT ![sid] = [last_accessed |-> @.last_accessed + 1]],
          meta |-> [meta EXCEPT ![sid].title = Some(title)]]
    ELSE [ok |-> FALSE, error |-> "not found", sessions |-> sess, meta |-> meta]

\* ConversationStore::update_session_pinned
update_session_pinned(sess, meta, sid, pinned) ==
    IF sid \in DOMAIN sess
    THEN [ok |-> TRUE, error |-> "", meta |-> [meta EXCEPT ![sid].pinned = pinned]]
    ELSE [ok |-> FALSE, error |-> "not found", meta |-> meta]

\* the response of an endpoint to a request for session sid
Respond(endpoint, sid, status) ==
    responses' = Append(responses, [endpoint |-> endpoint, session_id |-> sid,
                                    present |-> sid \in DOMAIN sessions, status |-> status])

UnchangedOutsideConv ==
    /\ UNCHANGED <<tier1_cache, tier2_cache, orchestrator, turnVars, calls, b_in, b_out>>
    /\ UNCHANGED <<cacheVars, scorerVars, queueVars, runtimeVars, streamVars, tier3Vars, memVars, txVars>>
    /\ UNCHANGED <<pool_fk, details, deletes, messages, summaries, embeddings>>

\* GET /conversations/:id
get_conversation(sid) ==
    /\ Respond("get", sid,
               IF orchestrator = "none" THEN 503
               ELSE IF sid \notin DOMAIN sessions THEN 404 ELSE 200)
    /\ UNCHANGED <<sessions, session_meta>>
    /\ UnchangedOutsideConv

\* PUT /conversations/:id/title
update_conversation_title(sid, title) ==
    /\ IF title = ""
       THEN Respond("title", sid, 400) /\ UNCHANGED <<sessions, session_meta>>
       ELSE IF orchestrator = "none"
       THEN Respond("title", sid, 503) /\ UNCHANGED <<sessions, session_meta>>
       ELSE \E r \in {update_session_title(sessions, session_meta, sid, title)} :
               /\ Respond("title", sid, IF r.ok THEN 200 ELSE 500)
               /\ sessions' = r.sessions
               /\ session_meta' = r.meta
    /\ UnchangedOutsideConv

\* PUT /conversations/:id/pinned
update_conversation_pinned(sid, pinned) ==
    /\ IF orchestrator = "none"
       THEN Respond("pinned", sid, 503) /\ UNCHANGED session_meta
       ELSE \E r \in {update_session_pinned(sessions, session_meta, sid, pinned)} :
               /\ Respond("pinned", sid,
                          IF r.ok THEN 200 ELSE IF r.error = "not found" THEN 404 ELSE 500)
               /\ session_meta' = r.meta
    /\ UNCHANGED sessions
    /\ UnchangedOutsideConv

\* DELETE /conversations/:id, its delete_session served by pooled connection c
delete_conversation(c, sid) ==
    /\ IF orchestrator = "none"
       THEN /\ Respond("delete", sid, 503)
            /\ UNCHANGED <<sessions, messages, summaries, details, embeddings, kv_snapshots,
                           deletes, session_meta>>
       ELSE \E r \in {delete_session(sessions, messages, summaries, details, embeddings,
                                     kv_snapshots, sid, pool_fk[c])} :
               /\ Respond("delete", sid, IF r.deleted = 0 THEN 404 ELSE 200)
               /\ sessions' = r.sessions
               /\ messages' = r.messages
               /\ summaries' = r.summaries
               /\ details' = r.details
               /\ embeddings' = r.embeddings
               /\ kv_snapshots' = r.snaps
               /\ deletes' = Append(deletes, [conn |-> c, session_id |-> sid, deleted |-> r.deleted])
               /\ session_meta' = [x \in DOMAIN session_meta \ {sid} |-> session_meta[x]]
    /\ UNCHANGED <<tier1_cache, tier2_cache, orchestrator, turnVars, calls, b_in, b_out>>
    /\ UNCHANGED <<patterns, session_state, kv_cache_entries, kv_cache_metadata, kv_calls,
                   kv_config, kv_clock, kv_schema>>
    /\ UNCHANGED <<pool_fk, scorerVars, queueVars, runtimeVars, streamVars, tier3Vars, memVars, txVars>>

NextConv ==
    /\ Len(responses) < MaxRequests
    /\ \E sid \in AllSessions \cup {"s9"} :
          \/ get_conversation(sid)
          \/ \E title \in {"", "Budget"} : update_conversation_title(sid, title)
          \/ \E pinned \in BOOLEAN : update_conversation_pinned(sid, pinned)
          \/ \E c \in Conns : delete_conversation(c, sid)

\* requests to the conversation endpoints, served one after the other
SpecConv == InitDelete /\ [][NextConv]_vars

\* ------------------------------------------------------------------------
\* Concurrent store_tier3_content calls (context_engine/tier_manager.rs)
\* ------------------------------------------------------------------------

\* the messages two concurrent calls carry, one each
MessagePairs ==
    { <<U(<<"Hello">>), A(<<"hi">>)>>,
      <<U(<<"Hello">>), U(BudgetNote)>>,
      <<A(<<"hi">>), A(<<"noted">>)>> }

UnchangedOutsideTier3 ==
    /\ UNCHANGED <<summaries, embeddings, tier1_cache, tier2_cache, orchestrator, turnVars,
                   calls, b_in, b_out>>
    /\ UNCHANGED <<cacheVars, scorerVars, queueVars, runtimeVars, streamVars, poolVars, memVars, txVars>>

\* the call of caller c returns
Return(c, result) ==
    /\ store_result' = [store_result EXCEPT ![c] = Some(result)]
    /\ store_pc' = [store_pc EXCEPT ![c] = "done"]

\* ensure_session_exists: get_session
StoreGet(c) ==
    /\ store_pc[c] = "get"
    /\ store_pc' = [store_pc EXCEPT ![c] = IF Sid \in DOMAIN sessions THEN "read" ELSE "create"]
    /\ UNCHANGED <<sessions, messages, store_msg, store_existing, store_result>>
    /\ UnchangedOutsideTier3

\* ensure_session_exists: create_session_with_id, its error returned with ?
StoreCreate(c) ==
    /\ store_pc[c] = "create"
    /\ LET r == create_session_with_id(sessions, Sid)
       IN  /\ sessions' = r.sessions
           /\ IF r.ok
              THEN store_pc' = [store_pc EXCEPT ![c] = "read"] /\ UNCHANGED store_result
              ELSE Return(c, "err")
    /\ UNCHANGED <<messages, store_msg, store_existing>>
    /\ UnchangedOutsideTier3

\* get_session_messages and the (role, content) filter
StoreRead(c) ==
    /\ store_pc[c] = "read"
    /\ LET ex == get_session_messages(messages, Sid, Tier3ScanLimit, 0)
       IN  /\ store_existing' = [store_existing EXCEPT ![c] = ex]
           /\ IF Tier3NewMessages(ex, <<store_msg[c]>>) = <<>>
              THEN Return(c, "ok")
              ELSE store_pc' = [store_pc EXCEPT ![c] = "insert"] /\ UNCHANGED store_result
    /\ UNCHANGED <<sessions, messages, store_msg>>
    /\ UnchangedOutsideTier3

\* store_messages_batch at start_index = existing_messages.len()
StoreInsert(c) ==
    /\ store_pc[c] = "insert"
    /\ \E r \in {store_messages_batch(sessions, messages, Sid,
                       Tier3Batch(store_existing[c],
                                  Tier3NewMessages(store_existing[c], <<store_msg[c]>>)),
                       TRUE)} :
          /\ sessions' = r.sessions
          /\ messages' = r.messages
          /\ Return(c, IF r.ok THEN "ok" ELSE "err")
    /\ UNCHANGED <<store_msg, store_existing>>
    /\ UnchangedOutsideTier3

\* two tasks have called store_tier3_content for the session, each with its
\* own message
InitTier3 ==
    /\ \E st \in {EmptyStore, SeededStore} : InitStore(st)
    /\ orchestrator = "enabled"
    /\ InitTurns
    /\ calls = <<>> /\ b_in = NoBuilderInput /\ b_out = None
    /\ InitCacheIdle
    /\ InitScorerIdle
    /\ InitQueueIdle
    /\ InitRuntimeIdle
    /\ InitStreamIdle
    /\ InitPoolIdle
    /\ InitMemIdle
    /\ InitTxIdle
    /\ \E pair \in MessagePairs : store_msg = [c \in Callers |-> IF c = "a" THEN pair[1] ELSE pair[2]]
    /\ store_pc = [c \in Callers |-> "get"]
    /\ store_existing = [c \in Callers |-> <<>>]
    /\ store_result = [c \in Callers |-> None]

NextTier3 ==
    \E c \in Callers :
        \/ StoreGet(c)
        \/ StoreCreate(c)
        \/ StoreRead(c)
        \/ StoreInsert(c)

\* two store_tier3_content calls for one session, interleaved at their
\* database calls
SpecTier3 == InitTier3 /\ [][NextTier3]_vars

\* ------------------------------------------------------------------------
\* the newest call of the cache manager, when it returned a clear result
ClearReturned ==
    kv_calls # <<>> /\ kv_calls[Len(kv_calls)].entries_to_keep # None

Kept(call, e) ==
    \E i \in 1..Len(call.entries_to_keep[1]) :
        call.entries_to_keep[1][i].key_hash = e.key_hash

\* C13: after a clear over any current entries, entries_to_keep holds every
\* input entry that scores at least min_importance_to_preserve * 1.2, every
\* SystemPrompt entry when preserve_system_prompts, every CodeBlock entry when
\* preserve_code_entries, and every AttentionKey or AttentionValue entry
C13_ClearPreserves ==
    ClearReturned =>
        LET call == kv_calls[Len(kv_calls)]
        IN  \A i \in 1..Len(call.entries) :
                LET e == call.entries[i]
                    entry_type == classify_entry(patterns, e)
                IN  (\/ e.importance_score * 10 >= min_importance_to_preserve * 12
                     \/ entry_type = "SystemPrompt" /\ preserve_system_prompts
                     \/ entry_type = "CodeBlock" /\ preserve_code_entries
                     \/ entry_type \in {"AttentionKey", "AttentionValue"})
                    => Kept(call, e)

\* the step appends a call whose snapshot attempt failed
SnapshotFailedNow ==
    /\ Len(kv_calls') = Len(kv_calls) + 1
    /\ kv_calls'[Len(kv_calls')].snapshot = "failed"

\* C14: a snapshot creation that fails at any statement (the snapshot row, an
\* entry row, the metadata upsert or the commit) leaves kv_snapshots,
\* kv_cache_entries and kv_cache_metadata without any row of that attempt
C14_FailedSnapshotLeavesNoRow ==
    [][SnapshotFailedNow =>
          UNCHANGED <<kv_snapshots, kv_cache_entries, kv_cache_metadata>>]_vars

\* a snapshot of two or more entries failed at its commit, all rows written
W_C14 ==
    /\ kv_calls # <<>>
    /\ LET call == kv_calls[Len(kv_calls)]
       IN  /\ call.snapshot = "failed"
           /\ Len(call.to_preserve) >= 2
           /\ call.fail = SnapshotSteps(call.to_preserve)

\* the process_conversation calls made so far, oldest first
ProcessCalls ==
    SelectSeq([i \in 1..Len(kv_calls) |-> Outcome(kv_calls[i])],
              LAMBDA c : c.op = "process_conversation")

ReportsConversationLimit(c) ==
    c.ok /\ c.should_clear_cache /\ c.clear_reason = Some("ConversationLimit")

\* every process_conversation call that returned Ok reports a clear for
\* ConversationLimit exactly when its number is a multiple of k, and the newest
\* such clear has reset conversation_count
ClearsOnMultiples ==
    /\ \A n \in 1..Len(ProcessCalls) :
          ProcessCalls[n].ok =>
              (ReportsConversationLimit(ProcessCalls[n])
                   <=> (n % clear_after_conversations = 0))
    /\ (kv_calls # <<>> /\ ReportsConversationLimit(Outcome(kv_calls[Len(kv_calls)])))
          => kv_calls[Len(kv_calls)].conversation_count = 0

MemoryNeverMet == \A n \in 1..Len(ProcessCalls) : ~ProcessCalls[n].memory_met

C16_EngagementInRange ==
    \A k \in DOMAIN key_engagement :
        min_engagement <= key_engagement[k] /\ key_engagement[k] <= max_engagement

\* five retrievals of one key have run into the upper clip while an idle key
\* sits on the floor
W_C16 ==
    /\ scorer_updates = 5
    /\ \E k \in DOMAIN key_engagement : key_engagement[k] = max_engagement
    /\ \E k \in DOMAIN key_engagement : key_engagement[k] = min_engagement

\* C17: a session's queue never holds more than 1000 messages, and a
\* queue_message call returns false without enqueueing exactly when the queue
\* already holds 1000 messages, true (having enqueued) otherwise, with
\* producers running concurrently
C17_QueueBounded ==
    /\ message_queues # None => Len(message_queues[1]) <= QueueCapacity
    /\ \A p \in Producers :
          queue_result[p] # None =>
              LET r == queue_result[p][1]
              IN  /\ r.ok <=> (r.before < QueueCapacity)
                  /\ r.after = IF r.ok THEN r.before + 1 ELSE r.before

\* the queue is full, one producer's newest call was refused at 1000 and the
\* other one's was accepted
W_C17 ==
    /\ message_queues # None /\ Len(message_queues[1]) = QueueCapacity
    /\ \E p \in Producers :
          /\ queue_result[p] # None
          /\ ~queue_result[p][1].ok /\ queue_result[p][1].before = QueueCapacity
    /\ \E p \in Producers : queue_result[p] # None /\ queue_result[p][1].ok

\* C18: hot_swap is atomic for concurrent readers: while only hot_swap calls
\* that succeed are made on an initialized manager, every generate,
\* health_check and is_ready finds the old or the new runtime, never none
C18_HotSwapAtomic ==
    (\A i \in 1..Len(mgr_calls) :
         mgr_calls[i].op = "hot_swap" /\ mgr_calls[i].result # "error")
        => \A r \in Readers : \A i \in 1..Len(observed[r]) : observed[r][i] # NoRuntime

\* C19: when the manager's shutdown returns, the child process of the runtime
\* it replaced has been killed, whatever the readers of the holder are doing
C19_ShutdownKillsChild ==
    \A i \in 1..Len(shutdown_log) :
        shutdown_log[i].runtime # NoRuntime => shutdown_log[i].child = "killed"

\* C20: a token stream that ends without an upstream error has delivered the
\* terminal marker data: [DONE] exactly once, as its last event
C20_DoneOnceAndLast ==
    stream_state = "ended" =>
        /\ delivered # <<>>
        /\ delivered[Len(delivered)] = "done"
        /\ Cardinality({i \in 1..Len(delivered) : delivered[i] = "done"}) = 1


\* the positions of the error events the client has received
ErrorEvents == {i \in 1..Len(delivered) : delivered[i] = "error"}

\* C21: when the worker's stream yields an error during a turn, the client
\* receives exactly one error event, and no stream event follows it
C21_OneErrorEventAndLast ==
    (producer = "llm_worker" /\ \E i \in 1..Len(yielded) : yielded[i] = "error")
        => ErrorEvents = {Len(delivered)}

\* the error came after a chunk had been forwarded
W_C21 ==
    /\ producer = "llm_worker"
    /\ stream_state = "failed"
    /\ Len(delivered) >= 2
    /\ delivered[1] = "chunk"
    /\ delivered[Len(delivered)] = "error"


\* no embedding call of the gateway has returned vectors
EmbeddingOutage == \A u \in Turns : embpc[u] # "done"

\* the rows that were stored since the database was opened
RowsOfTheTurns ==
    {i \in DOMAIN messages :
        messages[i].id > (IF StartedEmpty THEN 0 ELSE Len(SeededStore.messages))}

\* C22: when the gateway fails the embedding call of a turn whose chat stream
\* succeeded, the turn has completed normally with its assistant message
\* persisted, and no message of the turn is marked embedding_generated
C22_EmbeddingOutageKeepsTurn ==
    \A t \in Turns :
        (embpc[t] = "skipped" /\ EmbeddingOutage /\ Streamed(t) /\ sse[t][Len(sse[t])] = "done")
            => /\ pc[t] = "done"
               /\ Happened(t, "assistant_persist") /\ ReplyStored(t)
               /\ \A i \in RowsOfTheTurns : ~messages[i].embedding_generated

\* the turn stored its user message and its reply, and the gateway refused
\* the embedding call
W_C22 ==
    \E t \in Turns :
        /\ embpc[t] = "skipped" /\ pc[t] = "done" /\ sse[t] = <<"tok", "done">>
        /\ ReplyStored(t)
        /\ \E i \in RowsOfTheTurns : messages[i].role = "user"
        /\ \A i \in RowsOfTheTurns : ~messages[i].embedding_generated


\* some row of session sid is left in a table
RowsRemain(sid) ==
    \/ SessionRowSet(messages, sid) # {}
    \/ sid \in DOMAIN summaries /\ summaries[sid] # <<>>
    \/ \E i \in 1..Len(details) : details[i].session_id = sid
    \/ embeddings \cap MessageIds(SeededStore.messages, sid) # {}
    \/ \E i \in 1..Len(kv_snapshots) : kv_snapshots[i].session_id = sid

\* C23: after delete_session(s) succeeds, no message, summary, detail,
\* embedding or KV snapshot of s remains in the store, whichever pooled
\* connection ran the delete
C23_DeleteCascades ==
    \A k \in 1..Len(deletes) : ~RowsRemain(deletes[k].session_id)


\* the process_conversation calls made so far
OrchProcessCalls == {i \in 1..Len(calls) : calls[i].op = "process_conversation"}

\* C24: process_conversation returns exactly the input message list whenever
\* the engine is disabled, the input list is empty, or the retrieval plan has
\* needs_retrieval = false
C24_PassThrough ==
    \A i \in OrchProcessCalls :
        (\/ ~calls[i].enabled
         \/ calls[i].msgs = <<>>
         \/ calls[i].plan # None /\ ~calls[i].plan[1].needs_retrieval)
            => calls[i].out = calls[i].msgs

\* an enabled engine planned for a request with a system message and found
\* nothing to retrieve
W_C24 ==
    \E i \in OrchProcessCalls :
        /\ calls[i].enabled /\ Len(calls[i].msgs) = 2
        /\ calls[i].plan # None /\ ~calls[i].plan[1].needs_retrieval
        /\ calls[i].out = calls[i].msgs


\* C25: every conversation endpoint (get, update title, update pinned, delete)
\* answers a request for a session that is absent from the store with 404
C25_AbsentSessionIs404 ==
    \A i \in 1..Len(responses) :
        (~responses[i].present /\ responses[i].status \notin {400, 503})
            => responses[i].status = 404


\* the rows stored since the database was opened that hold the user message
\* the request of turn t ends with
UserRowsOfTurn(t) ==
    {i \in RowsOfTheTurns :
        /\ messages[i].session_id = Sid
        /\ messages[i].role = "user"
        /\ messages[i].content = req[t][Len(req[t])].content}

\* C26: for every turn whose request ends with a user message, exactly one
\* row for that user message is stored for the session, under every
\* interleaving of the detached persist with the tier-3 persist and for every
\* request message list
C26_OneUserRowPerTurn ==
    \A t \in Turns :
        (/\ TurnSettled(t)
         /\ \A u \in Turns \ {t} : pc[u] = "idle"
         /\ req[t] # <<>>
         /\ req[t][Len(req[t])].role = "user")
            => Cardinality(UserRowsOfTurn(t)) = 1


\* the message_index values under which the message of caller c is stored
StoredAt(c) ==
    {messages[i].message_index : i \in {j \in SessionRowSet(messages, Sid) :
        messages[j].role = store_msg[c].role /\ messages[j].content = store_msg[c].content}}

\* C27: when two store_tier3_content calls for one session, each carrying a
\* distinct new message, run concurrently, neither call fails and both
\* messages end up stored, at distinct message_index values
C27_ConcurrentStoresBothLand ==
    (\A c \in Callers : store_result[c] # None)
        => /\ \A c \in Callers : store_result[c] = Some("ok")
           /\ StoredAt("a") # {} /\ StoredAt("b") # {}
           /\ StoredAt("a") \cap StoredAt("b") = {}


\* C28: whenever the last input message has role user and counts at most
\* max_total_tokens by itself, the context build_context returns contains
\* that message
C28_CurrentQueryKept ==
    (/\ b_out # None
     /\ b_in.current_messages # <<>>
     /\ b_in.current_messages[Len(b_in.current_messages)].role = "user"
     /\ Tokens(b_in.current_messages[Len(b_in.current_messages)].content) <= max_total_tokens)
        => \E i \in 1..Len(b_out[1]) :
               b_out[1][i] = b_in.current_messages[Len(b_in.current_messages)]


\* the strategy agrees to a snapshot for the clear reason
StrategyAgrees(reason) ==
    \/ kv_config.snapshot_strategy \in {"Full", "Adaptive"}
    \/ kv_config.snapshot_strategy = "Incremental" /\ reason = "ConversationLimit"

\* the newest call returned a clear result, and it made a snapshot
ClearMadeSnapshot == kv_calls[Len(kv_calls)].snapshot = "created"

\* C29 as stated: a clear creates a snapshot exactly when the strategy agrees:
\* never under None, always under Full or Adaptive, under Incremental exactly
\* when the reason is ConversationLimit
C29_SnapshotFollowsStrategy_AsStated ==
    ClearReturned =>
        (ClearMadeSnapshot <=> StrategyAgrees(kv_calls[Len(kv_calls)].clear_reason[1]))

\* C29: a clear of an enabled manager creates a snapshot exactly when the
\* strategy agrees (never under None, always under Full or Adaptive, under
\* Incremental exactly when the reason is ConversationLimit); a clear of a
\* disabled manager creates none
C29_SnapshotFollowsStrategy ==
    ClearReturned =>
        (ClearMadeSnapshot <=>
            (kv_config.enabled /\ StrategyAgrees(kv_calls[Len(kv_calls)].clear_reason[1])))

\* an enabled Incremental manager made a snapshot for a clear at the
\* conversation limit
W_C29 ==
    /\ kv_config = [enabled |-> TRUE, snapshot_strategy |-> "Incremental"]
    /\ ClearReturned /\ ClearMadeSnapshot
    /\ kv_calls[Len(kv_calls)].clear_reason = Some("ConversationLimit")
    /\ kv_snapshots # <<>>

\* C30: process_conversation makes a memory-threshold clear only when the
\* manager is enabled and current_size / max_size reaches
\* memory_threshold_percent; a disabled manager never makes one
C30_MemoryClearOnlyWhenEnabled ==
    \A i \in 1..Len(kv_calls) :
        (kv_calls[i].op = "process_conversation"
         /\ kv_calls[i].clear_reason = Some("MemoryThreshold"))
            => kv_config.enabled /\ kv_calls[i].memory_met

\* ------------------------------------------------------------------------
\* Direct calls of the retrieval planner (context_engine/retrieval_planner.rs)
\* ------------------------------------------------------------------------

\* a request holding one pasted block twice over
TwoBlobs == <<"BLOB", "BLOB">>

\* current_messages handed to create_plan
PlannerMessages ==
    { <<U(<<"Hello">>)>>,
      <<U(TwoBlobs)>>,
      <<U(<<"BLOB">>), A(<<"BLOB">>)>>,
      <<U(<<"Hello">>), A(<<"hi">>), U(BudgetNote)>>,
      <<S(<<"be", "brief">>), U(PastQuery)>> }

\* planner.create_plan(session_id, current_messages, max_context_tokens,
\* user_query, has_past_refs), with what its store reads gave
CallCreatePlan(msgs, has_past_refs, has_summaries, has_db_messages) ==
    /\ Len(calls) < MaxCalls
    /\ calls' = Append(calls,
           [op |-> "create_plan", msgs |-> msgs, user_query |-> UserQuery(msgs),
            max_context_tokens |-> orch_max_context_tokens,
            has_past_refs |-> has_past_refs,
            plan |-> create_plan(msgs, orch_max_context_tokens, UserQuery(msgs),
                                 has_past_refs, has_summaries, has_db_messages)])
    /\ UNCHANGED <<sessions, messages, summaries, embeddings, tier1_cache, tier2_cache>>
    /\ UnchangedTurns

NextPlanner ==
    \E msgs \in PlannerMessages, has_past_refs, has_summaries, has_db_messages \in BOOLEAN :
        CallCreatePlan(msgs, has_past_refs, has_summaries, has_db_messages)

\* create_plan calls made one after the other
SpecPlanner == InitOrch /\ [][NextPlanner]_vars

\* C31: for every current message list of any length, the plan has
\* needs_retrieval = true if and only if the estimated tokens of the current
\* messages (sum of len / 4 per message) exceed max_context_tokens, or a past
\* reference is detected, or the query is cross-session
C31_NeedsRetrievalIff ==
    \A i \in 1..Len(calls) :
        calls[i].op = "create_plan" =>
            (calls[i].plan.needs_retrieval <=>
                \/ EstimatedTokens(calls[i].msgs) > calls[i].max_context_tokens
                \/ calls[i].has_past_refs
                \/ (calls[i].user_query # None
                    /\ has_past_references_in_text(calls[i].user_query[1]))
                \/ (calls[i].user_query # None
                    /\ is_cross_session_query(calls[i].user_query[1])))

\* ------------------------------------------------------------------------
\* Properties of snapshots: deduplication, restore, pruning, maintenance
\* ------------------------------------------------------------------------

\* C32: snapshot creation deduplicates by content hash: no session has two
\* kv_snapshots rows with the same kv_state_hash
C32_OneRowPerContentHash ==
    \A i, j \in 1..Len(kv_snapshots) :
        (/\ kv_snapshots[i].session_id = kv_snapshots[j].session_id
         /\ kv_snapshots[i].kv_state_hash = kv_snapshots[j].kv_state_hash)
            => i = j

\* the newest call is a clear that made the snapshot id
ClearMade(id) ==
    /\ kv_calls # <<>>
    /\ kv_calls[Len(kv_calls)].op \in {"process_conversation", "manual_clear_cache"}
    /\ kv_calls[Len(kv_calls)].snapshot = "created"
    /\ kv_calls[Len(kv_calls)].snapshot_id = Some(id)

\* the restored rows are the preserved entries, one for one
SameEntries(rows, preserved) ==
    /\ Len(rows) = Len(preserved)
    /\ \A i \in 1..Len(rows) :
          /\ rows[i].key_hash = preserved[i].key_hash
          /\ rows[i].value_len = preserved[i].value_len

\* C33: restoring from the snapshot a clear has just created succeeds and
\* returns exactly the entries that clear preserved, each with the same key
\* hash and the same value bytes
C33_RestoreReturnsPreserved ==
    [][ \A id \in 1..MaxSnapshotId :
          ( /\ ClearMade(id)
            /\ Len(kv_calls') = Len(kv_calls) + 1
            /\ kv_calls'[Len(kv_calls')].op = "restore_from_snapshot"
            /\ kv_calls'[Len(kv_calls')].result.snapshot_id = id )
          => /\ kv_calls'[Len(kv_calls')].ok
             /\ SameEntries(kv_calls'[Len(kv_calls')].result.entries[1],
                            kv_calls[Len(kv_calls)].to_preserve)
      ]_vars

\* the snapshot rows of session sid
SnapshotsOf(snaps, sid) == {snaps[i] : i \in {j \in 1..Len(snaps) : snaps[j].session_id = sid}}

\* the step is a call of operation op
CallStep(op) ==
    /\ Len(kv_calls') = Len(kv_calls) + 1
    /\ kv_calls'[Len(kv_calls')].op = op

\* C34: pruning with limit K leaves every session that has n snapshots exactly
\* min(K, n) of them, none older than a deleted one, also when several
\* snapshots of the session share their created_at
C34_PruneKeepsNewestK ==
    [][ CallStep("prune_old_kv_snapshots") =>
          \A sid \in AllSessions :
              LET before == SnapshotsOf(kv_snapshots, sid)
                  after == SnapshotsOf(kv_snapshots', sid)
              IN  /\ after \subseteq before
                  /\ Cardinality(after) =
                         Min2(kv_calls'[Len(kv_calls')].result.keep_max, Cardinality(before))
                  /\ \A kept \in after, gone \in before \ after :
                         kept.created_at >= gone.created_at
      ]_vars

\* C35: maintenance drops the in-memory state of a session only when the
\* session was last cleared more than 24 hours ago or never, and deletes no
\* persisted snapshot of a session that has at most max_snapshots snapshots
C35_MaintenanceKeepsSnapshots ==
    [][ CallStep("perform_maintenance") =>
          /\ (session_state # None /\ session_state' = None)
                => \/ session_state[1].last_cleared_at = None
                   \/ session_state[1].last_cleared_at[1] < kv_clock - Day
          /\ \A sid \in AllSessions :
                Cardinality(SnapshotsOf(kv_snapshots, sid)) <= max_snapshots
                    => SnapshotsOf(kv_snapshots', sid) = SnapshotsOf(kv_snapshots, sid)
      ]_vars

\* ------------------------------------------------------------------------
\* Properties of the embedding task
\* ------------------------------------------------------------------------

\* C36: a message is marked embedding_generated only if an embedding row of
\* that message is stored; a failed store_embedding, or a reply with fewer
\* vectors than texts, leaves the unmatched messages unmarked
C36_MarkedOnlyWithEmbedding ==
    \A i \in 1..Len(messages) :
        messages[i].embedding_generated => messages[i].id \in embeddings

\* ------------------------------------------------------------------------
\* Properties of a failed runtime swap
\* ------------------------------------------------------------------------

\* C37: when the initialization of the new runtime fails during hot_swap, the
\* runtime that was active when the call began is still installed once the
\* call has returned: a failed swap never leaves the manager without a runtime
C37_FailedSwapKeepsRuntime ==
    ( /\ mpc = "idle"
      /\ mgr_calls # <<>>
      /\ mgr_calls[Len(mgr_calls)].result = "error"
      /\ mgr_calls[Len(mgr_calls)].before # NoRuntime )
        => holders[holder].runtime = mgr_calls[Len(mgr_calls)].before

\* ------------------------------------------------------------------------
\* The in-memory session table (shared_state.rs, thread_pool.rs)
\* ------------------------------------------------------------------------

MaxSessionCalls == 3

SessionData(sid) == [session_id |-> sid, messages |-> <<>>, pinned |-> FALSE]

\* get_or_create_session, fast path: sessions.get(session_id). A hit returns
\* the Arc in the map; a miss leaves the task on the slow path
SessionGet(c, sid) ==
    /\ gpc[c] = "idle"
    /\ Len(session_calls) + Cardinality({d \in Callers : gpc[d] # "idle"}) < MaxSessionCalls
    /\ g_sid' = [g_sid EXCEPT ![c] = sid]
    /\ IF mem_sessions[sid] # None
       THEN g_arc' = [g_arc EXCEPT ![c] = mem_sessions[sid]] /\ gpc' = [gpc EXCEPT ![c] = "write"]
       ELSE g_arc' = [g_arc EXCEPT ![c] = None] /\ gpc' = [gpc EXCEPT ![c] = "insert"]
    /\ UNCHANGED <<mem_sessions, arcs, active_sessions, session_calls>>
    /\ UNCHANGED <<storeVars, turnVars, calls, b_in, b_out>>
    /\ UNCHANGED <<cacheVars, scorerVars, queueVars, runtimeVars, streamVars, poolVars, tier3Vars, txVars>>

\* get_or_create_session, slow path: a new Arc is allocated,
\* sessions.insert puts it in the map in place of whatever the map holds, the
\* counter goes up and the new Arc is returned
SessionInsert(c) ==
    /\ gpc[c] = "insert"
    /\ arcs' = Append(arcs, SessionData(g_sid[c]))
    /\ mem_sessions' = [mem_sessions EXCEPT ![g_sid[c]] = Some(Len(arcs) + 1)]
    /\ active_sessions' = active_sessions + 1
    /\ g_arc' = [g_arc EXCEPT ![c] = Some(Len(arcs) + 1)]
    /\ gpc' = [gpc EXCEPT ![c] = "write"]
    /\ UNCHANGED <<g_sid, session_calls>>
    /\ UNCHANGED <<storeVars, turnVars, calls, b_in, b_out>>
    /\ UNCHANGED <<cacheVars, scorerVars, queueVars, runtimeVars, streamVars, poolVars, tier3Vars, txVars>>

\* process_message after get_or_create_session: under the Arc's write lock
\* the message is pushed onto the session's messages
SessionWrite(c) ==
    /\ gpc[c] = "write"
    /\ arcs' = [arcs EXCEPT ![g_arc[c][1]].messages = Append(@, Len(session_calls) + 1)]
    /\ session_calls' = Append(session_calls,
                               [caller |-> c, session_id |-> g_sid[c], arc |-> g_arc[c][1],
                                message |-> Len(session_calls) + 1])
    /\ gpc' = [gpc EXCEPT ![c] = "idle"]
    /\ UNCHANGED <<mem_sessions, active_sessions, g_sid, g_arc>>
    /\ UNCHANGED <<storeVars, turnVars, calls, b_in, b_out>>
    /\ UNCHANGED <<cacheVars, scorerVars, queueVars, runtimeVars, streamVars, poolVars, tier3Vars, txVars>>

InitMem ==
    /\ InitStore(EmptyStore)
    /\ orchestrator = "none"
    /\ InitTurns
    /\ InitIdleApi

NextMem ==
    \E c \in Callers :
        \/ \E sid \in MemSids : SessionGet(c, sid)
        \/ SessionInsert(c)
        \/ SessionWrite(c)

\* tasks calling process_message for the sessions, interleaved at the
\* operations of the session map
SpecMem == InitMem /\ [][NextMem]_vars

\* C38: every task that get_or_create_session has served for a session id
\* holds the Arc the session map holds for that id, so the message it pushed
\* is in the session the map serves
C38_OneSharedSession ==
    \A i \in DOMAIN session_calls :
        /\ mem_sessions[session_calls[i].session_id] = Some(session_calls[i].arc)
        /\ \E k \in DOMAIN arcs[mem_sessions[session_calls[i].session_id][1]].messages :
              arcs[mem_sessions[session_calls[i].session_id][1]].messages[k] = session_calls[i].message

\* ------------------------------------------------------------------------
\* Summaries stored while the tier-2 cache is warm
\* (memory_db/summary_store.rs, context_engine/tier_manager.rs)
\* ------------------------------------------------------------------------

MaxStored == 2

MaxTier2Reads == 3

\* rows in the order of ORDER BY generated_at DESC once summary is among
\* them: before the first row that is older
RECURSIVE InsertByAge(_, _)
InsertByAge(rows, summary) ==
    IF rows = <<>> THEN <<summary>>
    ELSE IF Head(rows).age_hours >= summary.age_hours THEN <<summary>> \o rows
    ELSE <<Head(rows)>> \o InsertByAge(Tail(rows), summary)

\* SummaryStore::store_summary: one INSERT INTO summaries
store_summary(sums, sid, summary) ==
    [sums EXCEPT ![sid] = InsertByAge(@, summary)]

CallStoreSummary(sid, summary) ==
    /\ Len(summaries[sid]) < MaxStored
    /\ summaries' = store_summary(summaries, sid, summary)
    /\ UNCHANGED <<sessions, messages, embeddings, tier1_cache, tier2_cache, orchestrator>>
    /\ UNCHANGED <<turnVars, calls, b_in, b_out, componentVars>>

\* one get_tier2_content call, as retrieve_content makes it
CallTier2(sid) ==
    /\ Len(calls) < MaxTier2Reads
    /\ \E r \in {get_tier2_content(tier2_cache, summaries, sid)} :
          /\ tier2_cache' = r.cache
          /\ calls' = Append(calls, [op |-> "get_tier2_content", session_id |-> sid,
                                     stored |-> summaries[sid], result |-> r.value])
    /\ UNCHANGED <<sessions, messages, summaries, embeddings, tier1_cache, orchestrator>>
    /\ UNCHANGED <<turnVars, b_in, b_out, componentVars>>

\* TierManager::cleanup_cache: both caches are invalidated
CallCleanupCache ==
    /\ \E x \in AllSessions : tier1_cache[x] # None \/ tier2_cache[x] # None
    /\ tier1_cache' = [x \in AllSessions |-> None]
    /\ tier2_cache' = [x \in AllSessions |-> None]
    /\ UNCHANGED <<sessions, messages, summaries, embeddings, orchestrator>>
    /\ UNCHANGED <<turnVars, calls, b_in, b_out, componentVars>>

NextTier2 ==
    \/ \E sid \in AllSessions, summary \in {SummaryB, SummaryC} : CallStoreSummary(sid, summary)
    \/ \E sid \in AllSessions : CallTier2(sid)
    \/ CallCleanupCache

\* summaries stored and tier-2 reads made one after the other
SpecTier2 == InitOrch /\ [][NextTier2]_vars

\* C39: every tier-2 read returns the summaries stored for the session at
\* the time of the read, also those stored after the session's first
\* read-through
C39_Tier2ReadsCurrentSummaries ==
    \A i \in DOMAIN calls :
        calls[i].op = "get_tier2_content" => calls[i].result = Some(calls[i].stored)

\* ------------------------------------------------------------------------
\* Transactions on the pooled connections (memory_db/mod.rs)
\* ------------------------------------------------------------------------

MaxTxCalls == 2

MaxRows == 3

\* some connection other than c holds the database's write lock
LockedByOther(pending, c) ==
    \E d \in Conns : d # c /\ pending[d] # None

\* the rows written by f so far, in the log of the newest call
WriteLogged(log, row) ==
    [log EXCEPT ![Len(log)].writes = Append(@, row)]

\* with_transaction up to the call of f: begin_transaction takes connection
\* c from the pool and runs BEGIN IMMEDIATE on it, which fails when c is
\* inside a transaction already and when another connection holds the write
\* lock; the error is returned and c goes back to the pool
BeginTransaction(c) ==
    /\ tx_pc = "idle"
    /\ Len(tx_calls) < MaxTxCalls
    /\ IF tx_pending[c] # None \/ LockedByOther(tx_pending, c)
       THEN /\ tx_calls' = Append(tx_calls, [conn |-> c, began |-> FALSE, writes |-> <<>>,
                                             result |-> "err"])
            /\ UNCHANGED <<tx_pending, tx_pc, tx_conn>>
       ELSE /\ tx_pending' = [tx_pending EXCEPT ![c] = Some(<<>>)]
            /\ tx_pc' = "f"
            /\ tx_conn' = c
            /\ tx_calls' = Append(tx_calls, [conn |-> c, began |-> TRUE, writes |-> <<>>,
                                             result |-> "running"])
    /\ UNCHANGED <<db_rows, next_row>>
    /\ UNCHANGED <<storeVars, turnVars, calls, b_in, b_out>>
    /\ UNCHANGED <<cacheVars, scorerVars, queueVars, runtimeVars, streamVars, poolVars, tier3Vars, memVars>>

\* f writes one row through tx.connection()
TxWrite ==
    /\ tx_pc = "f"
    /\ next_row <= MaxRows
    /\ tx_pending' = [tx_pending EXCEPT ![tx_conn] = Some(Append(@[1], next_row))]
    /\ tx_calls' = WriteLogged(tx_calls, next_row)
    /\ next_row' = next_row + 1
    /\ UNCHANGED <<db_rows, tx_pc, tx_conn>>
    /\ UNCHANGED <<storeVars, turnVars, calls, b_in, b_out>>
    /\ UNCHANGED <<cacheVars, scorerVars, queueVars, runtimeVars, streamVars, poolVars, tier3Vars, memVars>>

\* Transaction::commit and Transaction::rollback: both return Ok(()) and
\* run no statement
commit(rows, pending, c) == [db_rows |-> rows, tx_pending |-> pending]

rollback(rows, pending, c) == [db_rows |-> rows, tx_pending |-> pending]

\* with_transaction from the return of f: commit() on Ok, rollback() on Err,
\* then the Transaction is dropped and its connection goes back to the pool
\* as it is
TxReturn(f_ok) ==
    /\ tx_pc = "f"
    /\ \E r \in {IF f_ok THEN commit(db_rows, tx_pending, tx_conn)
                 ELSE rollback(db_rows, tx_pending, tx_conn)} :
          /\ db_rows' = r.db_rows
          /\ tx_pending' = r.tx_pending
    /\ tx_calls' = [tx_calls EXCEPT ![Len(tx_calls)].result = IF f_ok THEN "ok" ELSE "err"]
    /\ tx_pc' = "idle"
    /\ UNCHANGED <<tx_conn, next_row>>
    /\ UNCHANGED <<storeVars, turnVars, calls, b_in, b_out>>
    /\ UNCHANGED <<cacheVars, scorerVars, queueVars, runtimeVars, streamVars, poolVars, tier3Vars, memVars>>

\* a store method outside any Transaction (store_summary): one INSERT on
\* connection c of the pool. It joins the transaction c has open, commits at
\* once when no connection has one, and fails on the write lock otherwise
PlainWrite(c) ==
    /\ tx_pc = "idle"
    /\ next_row <= MaxRows
    /\ ~(tx_pending[c] = None /\ LockedByOther(tx_pending, c))
    /\ IF tx_pending[c] # None
       THEN /\ tx_pending' = [tx_pending EXCEPT ![c] = Some(Append(@[1], next_row))]
            /\ UNCHANGED db_rows
       ELSE /\ db_rows' = db_rows \cup {next_row}
            /\ UNCHANGED tx_pending
    /\ next_row' = next_row + 1
    /\ UNCHANGED <<tx_pc, tx_conn, tx_calls>>
    /\ UNCHANGED <<storeVars, turnVars, calls, b_in, b_out>>
    /\ UNCHANGED <<cacheVars, scorerVars, queueVars, runtimeVars, streamVars, poolVars, tier3Vars, memVars>>

\* the pool closes an idle connection whose lifetime is over and opens a
\* new one in its place: the transaction it had open is rolled back
CloseConnection(c) ==
    /\ tx_pc = "idle"
    /\ tx_pending[c] # None
    /\ tx_pending' = [tx_pending EXCEPT ![c] = None]
    /\ UNCHANGED <<db_rows, tx_pc, tx_conn, tx_calls, next_row>>
    /\ UNCHANGED <<storeVars, turnVars, calls, b_in, b_out>>
    /\ UNCHANGED <<cacheVars, scorerVars, queueVars, runtimeVars, streamVars, poolVars, tier3Vars, memVars>>

NextTx ==
    \/ \E c \in Conns : BeginTransaction(c)
    \/ TxWrite
    \/ \E f_ok \in BOOLEAN : TxReturn(f_ok)
    \/ \E c \in Conns : PlainWrite(c)
    \/ \E c \in Conns : CloseConnection(c)

\* with_transaction calls and plain writes made one after the other on the
\* connections of the pool
SpecTx == InitMem /\ [][NextTx]_vars

\* C40: once with_transaction has returned, every row f wrote is committed
\* when f returned Ok and none of them is when f returned Err
C40_TransactionAllOrNothing ==
    \A i \in DOMAIN tx_calls :
        /\ tx_calls[i].began /\ tx_calls[i].result = "ok"
             => \A k \in DOMAIN tx_calls[i].writes : tx_calls[i].writes[k] \in db_rows
        /\ tx_calls[i].result = "err"
             => \A k \in DOMAIN tx_calls[i].writes : tx_calls[i].writes[k] \notin db_rows

====
